---- MODULE Spec2Model ----
(***************************************************************************)
(* rainbowcat as state machines.                                           *)
(*                                                                         *)
(* pipeline/parallel_task_pipeline: goroutines are processes, one caller,  *)
(* one dispatch loop per stage, one run goroutine per admitted job, one    *)
(* consumer of the result queue.  Channels are modelled by their Go        *)
(* semantics: jobC[i] is a buffered FIFO, FinishedC and outputC are        *)
(* rendezvous, closeC is a closed-or-not flag that every select may        *)
(* observe once it is closed.  RunParallelTaskPipeline's validation is     *)
(* modelled apart, as a function of its arguments (CtorSpec).              *)
(*                                                                         *)
(* pool/worker_pool: the workers, the Submit calls, the Close and          *)
(* CloseWithTimeout calls and the goroutine the latter spawns (PoolSpec).  *)
(*                                                                         *)
(* cache/fifo: the calls made on one FIFOCache, one after another          *)
(* (CacheSpec).                                                            *)
(*                                                                         *)
(* filewriter/size_rolling: the Write and Close calls made on one         *)
(* SizeRollingFileWriter and the files of its directory (WriterSpec).      *)
(*                                                                         *)
(* task/monitor: the RegisterTimerForTasks and RegisterTickerForTasks      *)
(* calls made concurrently on one TasksMonitor, and Start (MonitorSpec).   *)
(*                                                                         *)
(* filewriter/time_rolling: the Write calls made on one                    *)
(* TimeRollingFileWriter as time passes, the goroutines its rotations      *)
(* start and the files of its directory (RollerSpec).                      *)
(*                                                                         *)
(* Each component has its own variables and its own specifications; the    *)
(* steps of one leave the variables of the others unchanged.               *)
(***************************************************************************)
EXTENDS Integers, Sequences, FiniteSets, TLC

\* ---------------------------------------------------------------- bounds
\* number of PushJob calls the caller makes
MaxJobs == 2
\* largest number of stages a pipeline is constructed with
MaxStages == 2
\* largest concurrency limit RunParallelTaskPipeline is called with
MaxQuantity == 2
\* number of tasks submitted to the worker pool
MaxTasks == 2
\* largest number of workers of the pool
MaxWorkers == 2
\* number of Close / CloseWithTimeout calls made on the pool
MaxCloseCalls == 2
\* largest buffer size of the pool's task channel
MaxBufferSize == 1
\* number of distinct keys put into the FIFO cache
MaxKeys == 3
\* number of distinct values put into the FIFO cache
MaxValues == 2
\* largest maxElements a FIFO cache is created with
MaxElements == 2
\* largest maxBackups a rolling file writer is created with
MaxBackups == 2
\* largest fileSizeLimit a rolling file writer is created with
MaxSizeLimit == 2
\* number of Close calls made on a rolling file writer
MaxWriterCloses == 1
\* largest number of goroutines that call PushJob concurrently
MaxCallers == 2
\* number of task Types registered with the TasksMonitor
MaxTypes == 2
\* number of registration calls made on the TasksMonitor
MaxRegisterCalls == 2
\* number of roll periods that pass while a TimeRollingFileWriter is used
MaxPeriods == 2

\* ---------------------------------------------------------------- configuration
StageCounts == 1 .. MaxStages
AllStages == 0 .. (MaxStages - 1)
JobIds == 1 .. MaxJobs
\* job inputs: sequences, so that a Task's effect (appending) is visible.  The
\* k-th PushJob passes <<k>>: inputs are pairwise distinct, so the per-job
\* results chosen in TaskReturn are those of some pure Task.
InputOf(k) == <<k>>
Nil == << >>

\* the Task of stage i: appends the stage's suffix to its input
jobTask(i, input) == Append(input, i)

VARIABLES
    pipelineCount,           \* ParallelTaskPipeline.pipelineCount
    maxConcurrentQuantities, \* the limits given to RunParallelTaskPipeline
    pushLimit,    \* number of PushJob calls the caller is going to make
    closed,       \* closeC has been closed
    panicked,     \* the process died on close of a closed channel
    noOutput,     \* ParallelTaskPipeline.noOutput
    jobC,         \* jobC[i]: the admission queue of stage i (job ids)
    loopPC,       \* loopPC[i]: where stage i's dispatch loop stands
    cur,          \* cur[i]: the job stage i's loop has dequeued (0: none)
    callerPC,     \* per caller: "idle" or "do" (inside PushJob, blocked in Job.do)
    callerJob,    \* per caller: the job it is submitting (0: none)
    njobs,        \* number of jobs created by PushJob
    jInput,       \* Job.Input  per job
    jOutput,      \* Job.Output per job
    jOk,          \* Job.Ok     per job
    jtp,          \* Job.tp (stage index) per job
    runPC,        \* the job's run goroutine: none/ready/running/finished/exit
    pushed,       \* history: inputs pushed, by job id
    received,     \* history: values received from outputC
    receivedIds,  \* history: the jobs those values belong to
    admitSeq,     \* history: per stage, jobs in admission order
    handledSeq,   \* history: per stage, jobs forwarded/delivered/dropped, in order
    invoked,      \* history: <<job, stage>> whose Task was invoked
    returned,     \* history: <<job, stage>> whose Task has returned
    falseAt,      \* history: <<job, stage>> whose Task returned ok = false
    early,        \* history: jobs whose Task returned before that of a job
                  \*          admitted earlier to the same stage, until handled
    observed,     \* history: stages whose loop has taken a closeC case
    lateDo        \* history: jobs inside a Job.do that began after Close

\* RunParallelTaskPipeline as a function of its arguments
VARIABLES
    ctorPC,       \* "init" or "returned"
    ctorArgs,     \* the arguments of the call
    ctorRes       \* what the call returned and started

\* pool.WorkerPool
VARIABLES
    poolPC,       \* "new" (not constructed) or "open" (NewWorkerPool returned)
    pWorkers,     \* WorkerPool.workers
    pBuf,         \* cap(tasksC): 0 is the unbuffered default
    pWithCtx,     \* the pool was given a parent context (WithContext)
    pReject,      \* a reject handler is configured (WithRejectHandler)
    pRunning,     \* WorkerPool.running
    ctxDone,      \* p.ctx.Done() is closed
    parentDone,   \* the parent context has been cancelled
    tasksC,       \* buffer of tasksC (task ids)
    tasksClosed,  \* tasksC has been closed
    poolPanic,    \* the process died (send on or close of a closed channel)
    muReaders,    \* tasks whose Submit holds p.mu.RLock
    muWriter,     \* the closer whose call holds p.mu.Lock (0: none)
    subPC,        \* per Submit call: select / ok / closed / closing
    wPC,          \* per worker: idle / run / exited
    wTask,        \* per worker: the task it executes (0: none)
    runningTasks, \* WorkerPool.runningTasks
    closerPC,     \* per Close or CloseWithTimeout call: wait / select / returned
    closerKind,   \* per call: "Close" or "CloseWithTimeout"
    closerRes,    \* per call: what CloseWithTimeout returned
    helperPC,     \* per call: CloseWithTimeout's goroutine: none / close / wait / exit
    execCount,    \* history: per task, number of executions started
    rejectCount,  \* history: per task, number of reject handler calls
    afterClose,   \* history: tasks submitted after a Close/CloseWithTimeout returned
    afterCancel   \* history: tasks submitted after the parent context was cancelled

\* the FIFOCache, a record of
\*   pc               "new" before NewFIFOCache, "ready" after
\*   maxElements      FIFOCache.maxElements
\*   currentElements  FIFOCache.currentElements
\*   list             FIFOCache._list: the keys, front first
\*   cache            FIFOCache.cache: key -> value of its list element
\*   onRemoved        FIFOCache.onRemoved is not nil
\*   putOrder         history: the keys held, by latest insertion or
\*                    overwriting Put, oldest first
\*   lastOp           history: the last call, what it returned, the entries
\*                    it removed and the callbacks it made
VARIABLES fifo

\* the SizeRollingFileWriter, a record of
\*   pc             "new" before NewSizeRollingFileWriter, "made" after
\*   backupsArg     the maxBackups given to NewSizeRollingFileWriter
\*   maxBackups     SizeRollingFileWriter.maxBackups
\*   fileSizeLimit  SizeRollingFileWriter.fileSizeLimit
\*   file           SizeRollingFileWriter.file is not nil
\*   currentSize    SizeRollingFileWriter.currentSize
\*   closeCalls     number of Close calls made
\*   lastWrite      history: the last Write, whether it rotated, what it
\*                  returned
VARIABLES
    writer,
    dir            \* the files of basePath: index -> content (0: the current file)

\* the TasksMonitor, a record of
\*   timerMap   TasksMonitor.timerMap: Type -> the call that stored the task
\*   tickerMap  TasksMonitor.tickerMap, likewise
\*   running    TasksMonitor.running
\*   started    t.once has run
\*   runners    the goroutines started for tasks: <<kind, Type, call>>
\*   calls      the registration calls: kind, Type, where the call stands
\*              ("lock": Registered returned false, p.mu.Lock not yet
\*              granted; "done") and what it returned
VARIABLES mon

\* the TimeRollingFileWriter and its directory, a record of
\*   pc               "new" before NewTimeRollingFileWriter, "made" after
\*   backupsArg       the maxBackups given to NewTimeRollingFileWriter
\*   maxBackups       TimeRollingFileWriter.maxBackups
\*   now              time.Now(), in roll periods
\*   nextCheckTime    TimeRollingFileWriter.nextCheckTime
\*   deleteCheckTime  TimeRollingFileWriter.deleteCheckTime
\*   file             the period in the name of the open file (-1: nil)
\*   files            the files of basePath, by the period in their names
\*   cleanups         goroutines started by `go w.tryDeleteOldFiles()` that
\*                    have not run yet
\*   closeCalls       number of Close calls made
\*   writeErr         the last Write returned an error
VARIABLES roller

ctlVars  == <<pipelineCount, maxConcurrentQuantities, pushLimit, closed, panicked, noOutput>>
loopVars == <<loopPC, cur>>
callVars == <<callerPC, callerJob, njobs, pushed>>
jobVars  == <<jInput, jOutput, jOk, jtp>>
histVars == <<received, receivedIds, handledSeq, invoked, returned, falseAt, early>>
obsVars  == <<observed, lateDo>>
pipeVars == <<pipelineCount, maxConcurrentQuantities, pushLimit, closed, panicked, noOutput, jobC, loopPC, cur, callerPC,
          callerJob, njobs, jInput, jOutput, jOk, jtp, runPC, pushed, received,
          receivedIds, admitSeq, handledSeq, invoked, returned, falseAt, early, observed,
          lateDo>>
ctorVars == <<ctorPC, ctorArgs, ctorRes>>
poolVars == <<poolPC, pWorkers, pBuf, pWithCtx, pReject, pRunning, ctxDone,
              parentDone, tasksC, tasksClosed, poolPanic, muReaders, muWriter,
              subPC, wPC, wTask, runningTasks, closerPC, closerKind, closerRes,
              helperPC, execCount, rejectCount, afterClose, afterCancel>>
writerVars == <<writer, dir>>
\* what the steps of the pipeline leave alone
nonPipelineVars == <<ctorVars, poolVars, fifo, writerVars, mon, roller>>
vars == <<pipeVars, ctorVars, poolVars, fifo, writerVars, mon, roller>>

\* the stages of the pipeline, and the last of them
Stages == 0 .. (pipelineCount - 1)
LastStage == pipelineCount - 1

\* the jobs the PushJob calls create
Jobs == 1 .. pushLimit
\* the goroutines that call PushJob
AllCallers == 1 .. MaxCallers
Callers == DOMAIN callerPC

\* the maxConcurrentQuantities arrays the pipeline is constructed with
Quantities == { [i \in Stages |-> IF i % 2 = 0 THEN 1 ELSE 2] }

\* ---------------------------------------------------------------- Init
\* RunParallelTaskPipeline: empty queues, every loop started, nothing closed
\* make(chan *Job, maxConcurrentQuantities[i])
JobCCapOffByOne(i) == maxConcurrentQuantities[i] + 1
JobCCap(i) == maxConcurrentQuantities[i]

\* before RunParallelTaskPipeline is called with the arguments under study
CtorInit ==
    /\ ctorPC = "init"
    /\ ctorArgs = [pipelineCount |-> 0, maxConcurrentQuantities |-> << >>,
                   pipelineTaskProviders |-> 0]
    /\ ctorRes = [err |-> "", pipeline |-> FALSE, jobCCaps |-> << >>, loops |-> {}]

Tasks == 1 .. MaxTasks
Workers == 1 .. MaxWorkers
Closers == 1 .. MaxCloseCalls

\* before NewWorkerPool is called: no worker goroutine, no call yet
PoolInit ==
    /\ poolPC = "new"
    /\ pWorkers = 0 /\ pBuf = 0 /\ pWithCtx = FALSE /\ pReject = FALSE
    /\ pRunning = FALSE /\ ctxDone = FALSE /\ parentDone = FALSE
    /\ tasksC = << >> /\ tasksClosed = FALSE /\ poolPanic = FALSE
    /\ muReaders = {} /\ muWriter = 0
    /\ subPC = << >> /\ execCount = << >> /\ rejectCount = << >>
    /\ wPC = << >> /\ wTask = << >>
    /\ runningTasks = 0
    /\ closerPC = << >> /\ closerKind = << >> /\ closerRes = << >>
    /\ helperPC = << >>
    /\ afterClose = {} /\ afterCancel = {}

\* no call made on the cache yet
NoOp == [op |-> "", key |-> 0, value |-> 0, ret |-> FALSE, removed |-> << >>,
         calls |-> << >>]

\* before NewFIFOCache is called
CacheInit ==
    fifo = [pc |-> "new", maxElements |-> 0, currentElements |-> 0,
            list |-> << >>, cache |-> << >>, onRemoved |-> FALSE,
            putOrder |-> << >>, lastOp |-> NoOp]

\* no Write made yet
NoWrite == [bz |-> << >>, rotated |-> FALSE, n |-> 0, err |-> FALSE]

\* before NewSizeRollingFileWriter is called: basePath holds no file
WriterInit ==
    /\ writer = [pc |-> "new", backupsArg |-> 0, maxBackups |-> 0,
                 fileSizeLimit |-> 0, file |-> FALSE, currentSize |-> 0,
                 closeCalls |-> 0, lastWrite |-> NoWrite]
    /\ dir = << >>

\* a TasksMonitor with its maps made, not started, no call made yet
MonitorInit ==
    mon = [timerMap |-> << >>, tickerMap |-> << >>, running |-> FALSE,
           started |-> FALSE, runners |-> {}, calls |-> << >>]

\* before NewTimeRollingFileWriter is called: basePath holds no file
RollerInit ==
    roller = [pc |-> "new", backupsArg |-> 0, maxBackups |-> 0, now |-> 0,
              nextCheckTime |-> 0, deleteCheckTime |-> 0, file |-> -1,
              files |-> {}, cleanups |-> 0, closeCalls |-> 0,
              writeErr |-> FALSE]

\* the pipeline RunParallelTaskPipeline returns, and a caller about to make
\* n PushJob calls from k goroutines
Started(n, k) ==
    /\ CtorInit /\ PoolInit /\ CacheInit /\ WriterInit /\ MonitorInit /\ RollerInit
    /\ observed = {} /\ lateDo = {}
    /\ pipelineCount \in StageCounts
    /\ maxConcurrentQuantities \in Quantities
    /\ pushLimit = n
    /\ closed = FALSE /\ panicked = FALSE
    /\ noOutput = FALSE
    /\ jobC = [i \in Stages |-> << >>]
    /\ loopPC = [i \in Stages |-> "select"]
    /\ cur = [i \in Stages |-> 0]
    /\ callerPC = [c \in 1 .. k |-> "idle"] /\ callerJob = [c \in 1 .. k |-> 0] /\ njobs = 0
    /\ jInput = [j \in Jobs |-> Nil]
    /\ jOutput = [j \in Jobs |-> Nil]
    /\ jOk = [j \in Jobs |-> FALSE]
    /\ jtp = [j \in Jobs |-> 0]
    /\ runPC = [j \in Jobs |-> "none"]
    /\ pushed = << >> /\ received = << >> /\ receivedIds = << >>
    /\ admitSeq = [i \in Stages |-> << >>]
    /\ handledSeq = [i \in Stages |-> << >>]
    /\ invoked = {} /\ returned = {} /\ falseAt = {} /\ early = {}

Init == Started(MaxJobs, 1)

\* ---------------------------------------------------------------- Job.do
\* the select of Job.do: the send case is ready when the buffer has room
CanSendAlways(i) == TRUE
CanSend(i) == Len(jobC[i]) < JobCCap(i)
\* a receive from closeC is ready once the channel is closed
NeverObserved == FALSE
ShutdownObserved == closed
\* the select of Job.do: case <-j.tp.ptp.closeC
DoNeverCancelled == FALSE
DoCancelled == ShutdownObserved

\* case j.tp.jobC <- j: go j.run()
AdmitFront(j, i) ==
    /\ jobC' = [jobC EXCEPT ![i] = <<j>> \o @]
    /\ runPC' = [runPC EXCEPT ![j] = "ready"]
    /\ admitSeq' = [admitSeq EXCEPT ![i] = Append(@, j)]
Admit(j, i) ==
    /\ jobC' = [jobC EXCEPT ![i] = Append(@, j)]
    /\ runPC' = [runPC EXCEPT ![j] = "ready"]
    /\ admitSeq' = [admitSeq EXCEPT ![i] = Append(@, j)]

\* ---------------------------------------------------------------- caller
\* PushJob(input): builds the job and enters job.do()
PushJob(c, input) ==
    /\ ~panicked
    /\ callerPC[c] = "idle"
    /\ njobs < pushLimit
    /\ njobs' = njobs + 1
    /\ callerJob' = [callerJob EXCEPT ![c] = njobs + 1]
    /\ callerPC' = [callerPC EXCEPT ![c] = "do"]
    /\ jInput' = [jInput EXCEPT ![njobs + 1] = input]
    /\ jOutput' = [jOutput EXCEPT ![njobs + 1] = Nil]
    /\ jOk' = [jOk EXCEPT ![njobs + 1] = FALSE]
    /\ jtp' = [jtp EXCEPT ![njobs + 1] = 0]
    /\ pushed' = Append(pushed, input)
    /\ UNCHANGED <<ctlVars, jobC, loopVars, runPC, admitSeq, histVars>>
    /\ lateDo' = IF closed THEN lateDo \cup {njobs + 1} ELSE lateDo
    /\ UNCHANGED observed
    /\ UNCHANGED nonPipelineVars

\* PushJob's job.do(): the send case
PushEnqueue(c) ==
    /\ ~panicked
    /\ callerPC[c] = "do"
    /\ CanSend(0)
    /\ Admit(callerJob[c], 0)
    /\ callerPC' = [callerPC EXCEPT ![c] = "idle"]
    /\ callerJob' = [callerJob EXCEPT ![c] = 0]
    /\ UNCHANGED <<ctlVars, loopVars, njobs, pushed, jobVars, histVars>>
    /\ lateDo' = lateDo \ {callerJob[c]}
    /\ UNCHANGED observed
    /\ UNCHANGED nonPipelineVars

\* PushJob's job.do(): the closeC case, the job is dropped
PushClosed(c) ==
    /\ ~panicked
    /\ callerPC[c] = "do"
    /\ DoCancelled
    /\ callerPC' = [callerPC EXCEPT ![c] = "idle"]
    /\ callerJob' = [callerJob EXCEPT ![c] = 0]
    /\ UNCHANGED <<ctlVars, jobC, loopVars, njobs, pushed, jobVars, runPC,
                   admitSeq, histVars>>
    /\ lateDo' = lateDo \ {callerJob[c]}
    /\ UNCHANGED observed
    /\ UNCHANGED nonPipelineVars

\* Close(): close(p.closeC); closing a closed channel panics
Close ==
    /\ ~panicked
    /\ IF closed
         THEN panicked' = TRUE /\ closed' = closed
         ELSE closed' = TRUE /\ panicked' = panicked
    /\ UNCHANGED <<pipelineCount, maxConcurrentQuantities, pushLimit, noOutput, jobC, loopVars, callVars, jobVars, runPC,
                   admitSeq, histVars>>
    /\ UNCHANGED obsVars
    /\ UNCHANGED nonPipelineVars

\* NoOutput(): set before the pipeline is used
NoOutput ==
    /\ ~panicked
    /\ njobs = 0
    /\ ~noOutput
    /\ noOutput' = TRUE
    /\ UNCHANGED <<pipelineCount, maxConcurrentQuantities, pushLimit, closed, panicked, jobC, loopVars, callVars,
                   jobVars, runPC, admitSeq, histVars>>
    /\ UNCHANGED obsVars
    /\ UNCHANGED nonPipelineVars

\* ---------------------------------------------------------------- Job.run
\* j.tp.jobTask(j.Input) is called
TaskStart(j) ==
    /\ ~panicked
    /\ runPC[j] = "ready"
    /\ runPC' = [runPC EXCEPT ![j] = "running"]
    /\ invoked' = invoked \cup {<<j, jtp[j]>>}
    /\ UNCHANGED <<ctlVars, jobC, loopVars, callVars, jobVars, admitSeq,
                   received, receivedIds, handledSeq, returned, falseAt, early>>
    /\ UNCHANGED obsVars
    /\ UNCHANGED nonPipelineVars

\* jobs admitted to stage i before j whose Task has not returned yet
PosIn(s, j) == CHOOSE k \in 1 .. Len(s) : s[k] = j
EarlierRunning(j, i) ==
    { a \in Jobs : /\ jtp[a] = i
                     /\ runPC[a] \in {"ready", "running"}
                     /\ \E k \in 1 .. Len(admitSeq[i]) : admitSeq[i][k] = a
                     /\ PosIn(admitSeq[i], a) < PosIn(admitSeq[i], j) }

\* where Job.run stands once the Task has returned: in its select
RunReturns == "exit"
RunSelect == "finished"

\* the Task returns: j.Output, j.Ok = ...; the goroutine reaches its select
TaskReturn(j, ok) ==
    /\ ~panicked
    /\ runPC[j] = "running"
    /\ runPC' = [runPC EXCEPT ![j] = RunSelect]
    /\ returned' = returned \cup {<<j, jtp[j]>>}
    /\ jOutput' = [jOutput EXCEPT ![j] = jobTask(jtp[j], jInput[j])]
    /\ jOk' = [jOk EXCEPT ![j] = ok]
    /\ falseAt' = IF ok THEN falseAt ELSE falseAt \cup {<<j, jtp[j]>>}
    /\ early' = IF EarlierRunning(j, jtp[j]) # {} THEN early \cup {j} ELSE early
    /\ UNCHANGED <<ctlVars, jobC, loopVars, callVars, jInput, jtp, admitSeq,
                   received, receivedIds, handledSeq, invoked>>
    /\ UNCHANGED obsVars
    /\ UNCHANGED nonPipelineVars

\* Job.run's select: the closeC case
RunClosed(j) ==
    /\ ~panicked
    /\ runPC[j] = "finished"
    /\ ShutdownObserved
    /\ runPC' = [runPC EXCEPT ![j] = "exit"]
    /\ UNCHANGED <<ctlVars, jobC, loopVars, callVars, jobVars, admitSeq, histVars>>
    /\ UNCHANGED obsVars
    /\ UNCHANGED nonPipelineVars

\* ---------------------------------------------------------------- taskPipeline.loop
\* case job := <-tp.jobC: a buffered channel delivers in FIFO order
DequeueLast(q) == <<q[Len(q)], SubSeq(q, 1, Len(q) - 1)>>
DequeueKeeps(q) == <<Head(q), q>>
Dequeue(q) == <<Head(q), Tail(q)>>

\* if !job.Ok { continue }
AlwaysForward(j) == TRUE
InvertedOk(j) == ~jOk[j]
ShouldForward(j) == jOk[j]

\* job.Input = job.Output
StaleInput(j) == jInput[j]
ForwardInput(j) == jOutput[j]

Handled(i, j) ==
    /\ handledSeq' = [handledSeq EXCEPT ![i] = Append(@, j)]
    /\ early' = early \ {j}

\* outer select, case job := <-tp.jobC
LoopDequeue(i) ==
    /\ ~panicked
    /\ loopPC[i] = "select"
    /\ jobC[i] # << >>
    /\ cur' = [cur EXCEPT ![i] = Dequeue(jobC[i])[1]]
    /\ jobC' = [jobC EXCEPT ![i] = Dequeue(jobC[i])[2]]
    /\ loopPC' = [loopPC EXCEPT ![i] = "wait"]
    /\ UNCHANGED <<ctlVars, callVars, jobVars, runPC, admitSeq, histVars>>
    /\ UNCHANGED obsVars
    /\ UNCHANGED nonPipelineVars

BreakOutOfSelect == "select"
\* `return` in a closeC case of loop: the goroutine ends
LoopReturn == "done"

\* outer select, case <-tp.ptp.closeC: return
LoopClosedOuter(i) ==
    /\ ~panicked
    /\ loopPC[i] = "select"
    /\ ShutdownObserved
    /\ loopPC' = [loopPC EXCEPT ![i] = LoopReturn]
    /\ UNCHANGED <<ctlVars, jobC, cur, callVars, jobVars, runPC, admitSeq, histVars>>
    /\ observed' = observed \cup {i}
    /\ UNCHANGED lateDo
    /\ UNCHANGED nonPipelineVars

\* inner select, case <-tp.ptp.closeC: return
LoopClosedInner(i) ==
    /\ ~panicked
    /\ loopPC[i] = "wait"
    /\ ShutdownObserved
    /\ loopPC' = [loopPC EXCEPT ![i] = LoopReturn]
    /\ UNCHANGED <<ctlVars, jobC, cur, callVars, jobVars, runPC, admitSeq, histVars>>
    /\ observed' = observed \cup {i}
    /\ UNCHANGED lateDo
    /\ UNCHANGED nonPipelineVars

NeverSuppressed == FALSE
SuppressedInverted == ~noOutput
\* the last stage's test `!tp.ptp.noOutput`, negated
OutputSuppressed == noOutput

NoWaitForSignal(j) == TRUE
SignalledWhileRunning(j) == runPC[j] \in {"running", "finished"}
\* job j's run goroutine stands in its send on FinishedC, so that the loop's
\* receive `<-job.FinishedC` can complete
CompletionSignalled(j) == runPC[j] = "finished"

\* inner select, case <-job.FinishedC: the rendezvous with the job's run
\* goroutine (which exits), then the branch the loop takes
LoopFinished(i) ==
    /\ ~panicked
    /\ loopPC[i] = "wait"
    /\ CompletionSignalled(cur[i])
    /\ runPC' = [runPC EXCEPT ![cur[i]] = IF @ = "finished" THEN "exit" ELSE @]
    /\ IF i = LastStage
         THEN IF ~OutputSuppressed
                THEN \* tp.ptp.outputC <- job.Output: blocks in the send
                     /\ loopPC' = [loopPC EXCEPT ![i] = "output"]
                     /\ UNCHANGED <<cur, jobVars, handledSeq, early, lateDo>>
                ELSE \* continue
                     /\ loopPC' = [loopPC EXCEPT ![i] = "select"]
                     /\ cur' = [cur EXCEPT ![i] = 0]
                     /\ Handled(i, cur[i])
                     /\ UNCHANGED <<jobVars, lateDo>>
         ELSE IF ~ShouldForward(cur[i])
                THEN \* continue: the job is dropped
                     /\ loopPC' = [loopPC EXCEPT ![i] = "select"]
                     /\ cur' = [cur EXCEPT ![i] = 0]
                     /\ Handled(i, cur[i])
                     /\ UNCHANGED <<jobVars, lateDo>>
                ELSE \* the job is rebuilt for stage i+1 and job.do() entered
                     /\ jInput' = [jInput EXCEPT ![cur[i]] = ForwardInput(cur[i])]
                     /\ jOutput' = [jOutput EXCEPT ![cur[i]] = Nil]
                     /\ jtp' = [jtp EXCEPT ![cur[i]] = i + 1]
                     /\ loopPC' = [loopPC EXCEPT ![i] = "do"]
                     /\ lateDo' = IF closed THEN lateDo \cup {cur[i]} ELSE lateDo
                     /\ UNCHANGED <<cur, jOk, handledSeq, early>>
    /\ UNCHANGED <<ctlVars, jobC, callVars, admitSeq, received, receivedIds,
                   invoked, returned, falseAt>>
    /\ UNCHANGED observed
    /\ UNCHANGED nonPipelineVars

\* tp.ptp.outputC <- job.Output completes: a consumer receives the value
LoopOutput(i) ==
    /\ ~panicked
    /\ loopPC[i] = "output"
    /\ received' = Append(received, jOutput[cur[i]])
    /\ receivedIds' = Append(receivedIds, cur[i])
    /\ Handled(i, cur[i])
    /\ loopPC' = [loopPC EXCEPT ![i] = "select"]
    /\ cur' = [cur EXCEPT ![i] = 0]
    /\ UNCHANGED <<ctlVars, jobC, callVars, jobVars, runPC, admitSeq,
                   invoked, returned, falseAt>>
    /\ UNCHANGED obsVars
    /\ UNCHANGED nonPipelineVars

\* the loop's job.do(): the send case into stage i+1
LoopDoEnqueue(i) ==
    /\ ~panicked
    /\ loopPC[i] = "do"
    /\ CanSend(i + 1)
    /\ Admit(cur[i], i + 1)
    /\ Handled(i, cur[i])
    /\ loopPC' = [loopPC EXCEPT ![i] = "select"]
    /\ cur' = [cur EXCEPT ![i] = 0]
    /\ UNCHANGED <<ctlVars, callVars, jobVars, received, receivedIds,
                   invoked, returned, falseAt>>
    /\ lateDo' = lateDo \ {cur[i]}
    /\ UNCHANGED observed
    /\ UNCHANGED nonPipelineVars

\* the loop's job.do(): the closeC case, the job is dropped
LoopDoClosed(i) ==
    /\ ~panicked
    /\ loopPC[i] = "do"
    /\ DoCancelled
    /\ Handled(i, cur[i])
    /\ loopPC' = [loopPC EXCEPT ![i] = "select"]
    /\ cur' = [cur EXCEPT ![i] = 0]
    /\ UNCHANGED <<ctlVars, jobC, callVars, jobVars, runPC, admitSeq,
                   received, receivedIds, invoked, returned, falseAt>>
    /\ lateDo' = lateDo \ {cur[i]}
    /\ UNCHANGED observed
    /\ UNCHANGED nonPipelineVars

\* ---------------------------------------------------------------- specification
\* the steps of PushJob and of the pipeline's goroutines that do not take a
\* closeC case
OpenStep ==
    \/ \E c \in Callers, input \in {InputOf(njobs + 1)} : PushJob(c, input)
    \/ \E c \in Callers : PushEnqueue(c)
    \/ \E j \in Jobs : TaskStart(j)
    \/ \E j \in Jobs, ok \in BOOLEAN : TaskReturn(j, ok)
    \/ \E i \in Stages : LoopDequeue(i)
    \/ \E i \in Stages : LoopFinished(i)
    \/ \E i \in Stages : LoopOutput(i)
    \/ \E i \in Stages : LoopDoEnqueue(i)

\* the closeC cases of the selects
ShutdownStep ==
    \/ \E c \in Callers : PushClosed(c)
    \/ \E j \in Jobs : RunClosed(j)
    \/ \E i \in Stages : LoopClosedOuter(i)
    \/ \E i \in Stages : LoopClosedInner(i)
    \/ \E i \in Stages : LoopDoClosed(i)

PipelineStep == OpenStep \/ ShutdownStep

Next ==
    \/ PipelineStep
    \/ Close
    \/ NoOutput

Spec == Init /\ [][Next]_vars

TypeOK ==
    /\ pipelineCount \in StageCounts
    /\ closed \in BOOLEAN /\ panicked \in BOOLEAN /\ noOutput \in BOOLEAN
    /\ \A i \in Stages : loopPC[i] \in {"select", "wait", "output", "do", "done"}
    /\ \A i \in Stages : cur[i] \in 0 .. pushLimit
    /\ \A c \in Callers : callerPC[c] \in {"idle", "do"}
    /\ njobs \in 0 .. pushLimit
    /\ \A j \in Jobs : runPC[j] \in {"none", "ready", "running", "finished", "exit"}
    /\ \A j \in Jobs : jtp[j] \in Stages

\* ---------------------------------------------------------------- fairness
\* The Go scheduler runs every runnable goroutine, and a select picks among
\* its ready cases at random, so a case that stays ready is eventually taken.
\* Receiving from the result queue is the caller's choice: LoopOutput is fair
\* only where a consumer keeps receiving.
SchedulerFairness ==
    /\ \A c \in AllCallers : /\ WF_vars(c \in Callers /\ PushEnqueue(c))
                             /\ WF_vars(c \in Callers /\ PushClosed(c))
    /\ \A j \in JobIds : /\ WF_vars(TaskStart(j))
                         /\ WF_vars(\E ok \in BOOLEAN : TaskReturn(j, ok))
                         /\ WF_vars(RunClosed(j))
    /\ \A i \in AllStages : /\ WF_vars(i \in Stages /\ LoopDequeue(i))
                            /\ WF_vars(i \in Stages /\ LoopClosedOuter(i))
                            /\ WF_vars(i \in Stages /\ LoopClosedInner(i))
                            /\ WF_vars(i \in Stages /\ LoopFinished(i))
                            /\ WF_vars(i \in Stages /\ LoopDoEnqueue(i))
                            /\ WF_vars(i \in Stages /\ LoopDoClosed(i))

\* Close is called at most once (no panic); nobody is obliged to receive
CloseOnce == Close /\ ~panicked'
CloseOnceNext ==
    \/ PipelineStep
    \/ CloseOnce
    \/ NoOutput
FairSpec == Init /\ [][CloseOnceNext]_vars /\ SchedulerFairness

\* as FairSpec, assuming no more than that the goroutine inside PushJob is
\* scheduled: when a case of Job.do's select is ready, it takes one
CallerFairSpec ==
    Init /\ [][CloseOnceNext]_vars /\ WF_vars(PushEnqueue(1) \/ PushClosed(1))

\* Close is never called, output is not suppressed, a consumer keeps receiving
DeliverNext == OpenStep
DeliverSpec ==
    /\ Init /\ [][DeliverNext]_vars
    /\ SchedulerFairness
    /\ \A i \in AllStages : WF_vars(i \in Stages /\ LoopOutput(i))

\* Close is called at most once and output is never suppressed. Of the
\* scheduler's fairness only this much is assumed: a run goroutine whose
\* select in Job.run has its closeC case ready is not starved for ever. Once
\* ready the case stays ready until it is taken, so the fairness of each
\* goroutine taken alone (SchedulerFairness) implies this one.
ClosingNext ==
    \/ PipelineStep
    \/ CloseOnce
ClosingSpec ==
    Init /\ [][ClosingNext]_vars /\ WF_vars(\E j \in JobIds : RunClosed(j))

\* Close is never called, nobody receives, output may be suppressed at any time
SuppressedNext ==
    \/ OpenStep
    \/ NoOutput
SuppressedSpec == Init /\ [][SuppressedNext]_vars /\ SchedulerFairness

\* ---------------------------------------------------------------- helpers of the properties
Range(s) == { s[k] : k \in 1 .. Len(s) }
IsPrefix(s, t) == Len(s) <= Len(t) /\ \A k \in 1 .. Len(s) : s[k] = t[k]

\* T_N(...T_i(x)): the Tasks of stages i .. N-1 applied in order
RECURSIVE ComposeFrom(_, _)
ComposeFrom(i, x) == IF i > LastStage THEN x ELSE ComposeFrom(i + 1, jobTask(i, x))

Failed(j) == \E i \in Stages : <<j, i>> \in falseAt
Delivered(j) == j \in Range(receivedIds)
Running(i) == { j \in Jobs : jtp[j] = i /\ runPC[j] = "running" }

\* ---------------------------------------------------------------- C1
\* C1: while no Task has returned continue=false and Close has not been
\* called, the values received from the result queue are a prefix of the
\* pushed inputs, each taken through the Tasks of all stages, in push order.
C1_ComposedInPushOrder ==
    (falseAt = {} /\ ~closed) =>
        IsPrefix(received, [k \in 1 .. Len(pushed) |-> ComposeFrom(0, pushed[k])])

\* every pushed job has been delivered, none was dropped, nothing was closed
C1_Witness ==
    /\ Len(received) = MaxJobs
    /\ falseAt = {}
    /\ ~closed

\* ---------------------------------------------------------------- C2
\* C2: with no Close, Tasks that return and a consumer that keeps receiving,
\* every pushed job is eventually delivered unless some stage's Task returned
\* continue=false for it.
C2_EventuallyDelivered ==
    \A j \in JobIds : (njobs >= j) ~> (Delivered(j) \/ Failed(j))

\* a job was delivered after an earlier job had been dropped at stage 0
C2_Witness ==
    \E j \in JobIds : /\ Delivered(j)
                      /\ ~Failed(j)
                      /\ \E a \in 1 .. (j - 1) : <<a, 0>> \in falseAt

\* ---------------------------------------------------------------- C3
\* C3: a job for which the Task of some stage (first, middle or last)
\* returned continue=false is never sent on the result queue.
C3_NoOutputAfterFalse ==
    \A j \in JobIds : Failed(j) => ~Delivered(j)

\* ---------------------------------------------------------------- C4
\* C4: a job for which stage i's Task returned continue=false is never
\* admitted to a later stage's queue, and no later stage's Task is invoked
\* for it.
C4_NotForwardedAfterFalse ==
    \A p \in falseAt : \A k \in Stages :
        k > p[2] => /\ <<p[1], k>> \notin invoked
                    /\ p[1] \notin Range(admitSeq[k])
                    /\ p[1] \notin Range(jobC[k])

\* stage 0's loop has received the completion of a job whose Task returned
\* false, and dropped it
C4_Witness ==
    \E p \in falseAt : /\ p[2] < LastStage
                       /\ p[1] \in Range(handledSeq[p[2]])
                       /\ ~closed

\* ---------------------------------------------------------------- C5
\* C5: every stage forwards, delivers or drops its jobs in the order in
\* which they were admitted to its queue.
C5_HandledInAdmissionOrder ==
    \A i \in Stages : IsPrefix(handledSeq[i], admitSeq[i])

\* B's Task returned before that of A, admitted just before it to the same
\* stage; A has been handled since, B not yet
C5_Witness ==
    \E i \in Stages, b \in early :
        /\ jtp[b] = i
        /\ Len(handledSeq[i]) >= 1
        /\ Len(admitSeq[i]) > Len(handledSeq[i])
        /\ admitSeq[i][Len(handledSeq[i]) + 1] = b

\* ---------------------------------------------------------------- C6
\* C6: a stage's admission queue never holds more jobs than the stage's
\* limit, and a step that enqueues into a queue starts with fewer jobs in
\* it than the limit.
C6_QueueBounded ==
    /\ [](\A i \in Stages : Len(jobC[i]) <= maxConcurrentQuantities[i])
    /\ [][\A i \in Stages : Len(jobC'[i]) > Len(jobC[i]) =>
              Len(jobC[i]) < maxConcurrentQuantities[i]]_vars

\* PushJob is blocked in Job.do on a full stage-0 queue, nothing closed
C6_Witness ==
    /\ callerPC[1] = "do"
    /\ Len(jobC[0]) = maxConcurrentQuantities[0]
    /\ ~closed

\* ---------------------------------------------------------------- C7
\* C7: the Task invocations of a stage that have started and not returned
\* never outnumber the stage's limit.
C7_RunningAtMostLimit ==
    \A i \in Stages : Cardinality(Running(i)) <= maxConcurrentQuantities[i]

\* ---------------------------------------------------------------- C8
\* C8: calling Close two or more times never panics.
C8_CloseTwiceNoPanic == ~panicked

\* ---------------------------------------------------------------- C9
\* C9: after Close every stage's dispatch loop eventually terminates.
C9_LoopsTerminateAfterClose ==
    closed ~> (\A i \in Stages : loopPC[i] = "done")

\* ---------------------------------------------------------------- C10
\* C10: a PushJob returns only if stage 0's queue has a free slot or Close
\* has been called, and a PushJob that is blocked with a free slot or after
\* Close eventually returns.
C10_PushJobBlocksAndReturns ==
    /\ [][(callerPC[1] = "do" /\ callerPC'[1] = "idle") =>
              (Len(jobC[0]) < maxConcurrentQuantities[0] \/ closed)]_vars
    /\ (callerPC[1] = "do" /\ (closed \/ Len(jobC[0]) < maxConcurrentQuantities[0]))
           ~> (callerPC[1] = "idle")

\* PushJob is blocked on a full stage-0 queue when Close has been called
C10_Witness ==
    /\ callerPC[1] = "do"
    /\ Len(jobC[0]) = maxConcurrentQuantities[0]
    /\ closed

\* ---------------------------------------------------------------- C11
\* C11: a Job.do that begins after Close (a PushJob call or a forwarding by
\* a dispatch loop) ends without the job entering any admission queue, so
\* that no Task is invoked on it.
C11_LateJobDropped ==
    [][\A j \in lateDo : j \notin lateDo' => (jobC' = jobC /\ admitSeq' = admitSeq)]_vars

\* ---------------------------------------------------------------- C12
\* C12: once the last stage's dispatch loop has taken a closeC case, no
\* further value is sent on the result queue.
C12_NoLateResults ==
    [][(LastStage \in observed) => (received' = received)]_vars

\* the last stage's loop observed the shutdown while the job it waited for
\* had a result that was never delivered
C12_Witness ==
    /\ LastStage \in observed
    /\ \E j \in JobIds : /\ jtp[j] = LastStage
                         /\ cur[LastStage] = j
                         /\ runPC[j] = "finished"
                         /\ ~Delivered(j)

\* ---------------------------------------------------------------- C13
\* C13: once Close has been called, no dispatch loop receives a completion
\* signal: a loop waiting on FinishedC leaves the wait only by returning.
C13_NoSignalAfterClose ==
    [][closed => \A i \in Stages :
                    loopPC[i] = "wait" => loopPC'[i] \in {"wait", "done"}]_vars

\* ---------------------------------------------------------------- C14
\* the channel made by RunParallelTaskPipeline, and the nil channel
outputC == "outputC"
NilChan == "nil"
\* OutputC()
OutputC == IF noOutput THEN NilChan ELSE outputC

\* C14: with NoOutput configured before any job is pushed, OutputC returns
\* nil and the last stage never sends on the result queue; without it,
\* OutputC returns the result queue.
C14_NoOutputSuppresses ==
    /\ noOutput => /\ OutputC = NilChan
                   /\ received = << >>
                   /\ \A i \in Stages : loopPC[i] # "output"
    /\ ~noOutput => OutputC = outputC

\* output is suppressed and the last stage has finished with a job
C14_Witness ==
    /\ noOutput
    /\ Len(handledSeq[LastStage]) > 0

\* ---------------------------------------------------------------- C16
\* the Task of job j at the only stage has returned
TaskCompleted(j) == runPC[j] \in {"finished", "exit"}

\* C16: in a single-stage pipeline, while the Task of the first admitted
\* job has not completed, no more results have been delivered than the
\* stage's concurrency limit.
C16_Backpressure ==
    (pipelineCount = 1 /\ Len(admitSeq[0]) > 0 /\ ~TaskCompleted(admitSeq[0][1]))
        => Len(received) <= maxConcurrentQuantities[0]

\* more jobs than the limit were admitted, and a later job's Task completed
\* while that of the first admitted job has not
C16_Witness ==
    /\ pipelineCount = 1
    /\ Len(admitSeq[0]) > maxConcurrentQuantities[0]
    /\ ~TaskCompleted(admitSeq[0][1])
    /\ \E j \in JobIds : j # admitSeq[0][1] /\ TaskCompleted(j)
    /\ received = << >>

\* ================================================================
\* RunParallelTaskPipeline as a function of its arguments
\* ================================================================
\* pipelineCount, maxConcurrentQuantities and the number of providers
CountArgs == 0 .. MaxStages
QuantityArgs == UNION { [1 .. n -> 0 .. MaxQuantity] : n \in 0 .. MaxStages }
ProviderArgs == 0 .. MaxStages

ProvidersUnchecked(count, quantities, providers) ==
    IF count = 0 THEN "invalid pipeline count"
    ELSE IF Len(quantities) # count THEN "invalid max concurrent quantities"
    ELSE ""
\* the three tests the function starts with, in their order; "" is nil
ValidationError(count, quantities, providers) ==
    IF count = 0 THEN "invalid pipeline count"
    ELSE IF Len(quantities) # count THEN "invalid max concurrent quantities"
    ELSE IF providers # count THEN "invalid pipeline task providers"
    ELSE ""

\* the whole call: validation, then one taskPipeline per index with
\* jobC of capacity maxConcurrentQuantities[i] and `go tp.loop()`
RunParallelTaskPipeline(count, quantities, providers) ==
    /\ ctorPC = "init"
    /\ ctorPC' = "returned"
    /\ ctorArgs' = [pipelineCount |-> count, maxConcurrentQuantities |-> quantities,
                    pipelineTaskProviders |-> providers]
    /\ LET err == ValidationError(count, quantities, providers)
       IN  ctorRes' = IF err # ""
                        THEN [err |-> err, pipeline |-> FALSE,
                              jobCCaps |-> << >>, loops |-> {}]
                        ELSE [err |-> "", pipeline |-> TRUE,
                              jobCCaps |-> [i \in 1 .. count |-> quantities[i]],
                              loops |-> 0 .. (count - 1)]
    /\ UNCHANGED <<pipeVars, poolVars, fifo, writerVars, mon, roller>>

CtorNext ==
    \E count \in CountArgs, quantities \in QuantityArgs, providers \in ProviderArgs :
        RunParallelTaskPipeline(count, quantities, providers)

CtorSpec == Init /\ [][CtorNext]_vars

\* ---------------------------------------------------------------- C15
\* C15: RunParallelTaskPipeline returns an error, no pipeline and starts no
\* loop exactly when pipelineCount = 0 or the number of limits or of
\* providers differs from pipelineCount; otherwise it returns a pipeline of
\* pipelineCount stages whose queue capacities are the limits in order,
\* each with a started loop.
C15_ConstructorValidates ==
    ctorPC = "returned" =>
        LET count == ctorArgs.pipelineCount
            invalid == \/ count = 0
                       \/ Len(ctorArgs.maxConcurrentQuantities) # count
                       \/ ctorArgs.pipelineTaskProviders # count
        IN  /\ invalid => /\ ctorRes.err # ""
                          /\ ~ctorRes.pipeline
                          /\ ctorRes.loops = {}
            /\ ~invalid => /\ ctorRes.err = ""
                           /\ ctorRes.pipeline
                           /\ Len(ctorRes.jobCCaps) = count
                           /\ ctorRes.jobCCaps = ctorArgs.maxConcurrentQuantities
                           /\ ctorRes.loops = 0 .. (count - 1)

\* a call with the right number of limits and one provider too few
C15_Witness ==
    /\ ctorPC = "returned"
    /\ ctorArgs.pipelineCount = 2
    /\ Len(ctorArgs.maxConcurrentQuantities) = 2
    /\ ctorArgs.pipelineTaskProviders = 1
    /\ ctorRes.err = "invalid pipeline task providers"

\* ================================================================
\* pool.WorkerPool (pool/worker_pool.go)
\* Goroutines: one per Submit call, one per worker, one per Close or
\* CloseWithTimeout call, and the goroutine CloseWithTimeout spawns.
\* tasksC is a FIFO of capacity pBuf (a rendezvous when pBuf = 0), the
\* context is a closed-or-not Done channel, mu is a reader/writer lock.
\* A call exists from the moment it holds the lock: subPC and closerPC
\* grow by one entry per call, in the order in which the lock is granted.
\* ================================================================
poolCfg    == <<poolPC, pWorkers, pBuf, pWithCtx, pReject>>
ctxVars    == <<ctxDone, parentDone>>
chanVars   == <<tasksC, tasksClosed, poolPanic>>
muVars     == <<muReaders, muWriter>>
subVars    == <<subPC, rejectCount, afterClose, afterCancel>>
workerVars == <<wPC, wTask, runningTasks, execCount>>
closerVars == <<closerPC, closerKind, closerRes, helperPC>>
nonPoolVars == <<pipeVars, ctorVars, fifo, writerVars, mon, roller>>

\* the arguments NewWorkerPool and WithBufferSize are called with
WorkerArgs == 0 .. MaxWorkers
BufferArgs == 0 .. MaxBufferSize

\* the pool exists and the process has not died
PoolLive == poolPC = "open" /\ ~poolPanic

\* NewWorkerPool(workers, opts...): workers <= 0 becomes 1, a buffer size
\* that is not positive leaves the unbuffered channel, startWorkers()
NewWorkerPool(workers, size, withCtx, reject) ==
    /\ poolPC = "new"
    /\ poolPC' = "open"
    /\ pWorkers' = IF workers <= 0 THEN 1 ELSE workers
    /\ pBuf' = IF size > 0 THEN size ELSE 0
    /\ pWithCtx' = withCtx
    /\ pReject' = reject
    /\ pRunning' = TRUE
    /\ wPC' = [w \in 1 .. pWorkers' |-> "idle"]
    /\ wTask' = [w \in 1 .. pWorkers' |-> 0]
    /\ UNCHANGED <<ctxVars, chanVars, muVars, subVars, runningTasks,
                   execCount, closerVars, nonPoolVars>>

\* the cancel function of the context given to WithContext is called
ParentCancel ==
    /\ PoolLive
    /\ pWithCtx /\ ~parentDone
    /\ parentDone' = TRUE
    /\ ctxDone' = TRUE
    /\ UNCHANGED <<poolCfg, pRunning, chanVars, muVars, subVars, workerVars,
                   closerVars, nonPoolVars>>

\* ---------------------------------------------------------------- workers
\* wg.Wait() returns: every started worker has run its deferred wg.Done()
AllExited == \A w \in DOMAIN wPC : wPC[w] = "exited"

\* worker w stands in its select
Idle(w) == w \in DOMAIN wPC /\ wPC[w] = "idle"

\* a worker's select, case <-p.ctx.Done(): return
WorkerCtxDone(w) ==
    /\ PoolLive
    /\ Idle(w)
    /\ ctxDone
    /\ wPC' = [wPC EXCEPT ![w] = "exited"]
    /\ UNCHANGED <<poolCfg, pRunning, ctxVars, chanVars, muVars, subVars, wTask,
                   runningTasks, execCount, closerVars, nonPoolVars>>

TaskLeftInChannel(q) == q
\* what a receive leaves in the channel's buffer
AfterReceive(q) == Tail(q)

\* a worker starts task t: runningTasks is incremented and task() called
StartTask(w, t) ==
    /\ wPC' = [wPC EXCEPT ![w] = "run"]
    /\ wTask' = [wTask EXCEPT ![w] = t]
    /\ runningTasks' = runningTasks + 1
    /\ execCount' = [execCount EXCEPT ![t] = @ + 1]

\* a worker's select, case task, ok := <-p.tasksC with ok: a buffered task
WorkerReceive(w) ==
    /\ PoolLive
    /\ Idle(w)
    /\ tasksC # << >>
    /\ tasksC' = AfterReceive(tasksC)
    /\ StartTask(w, Head(tasksC))
    /\ UNCHANGED <<poolCfg, pRunning, ctxVars, tasksClosed, poolPanic, muVars,
                   subVars, closerVars, nonPoolVars>>

\* a worker's select, case task, ok := <-p.tasksC with !ok: return
WorkerChannelClosed(w) ==
    /\ PoolLive
    /\ Idle(w)
    /\ tasksClosed /\ tasksC = << >>
    /\ wPC' = [wPC EXCEPT ![w] = "exited"]
    /\ UNCHANGED <<poolCfg, pRunning, ctxVars, chanVars, muVars, subVars, wTask,
                   runningTasks, execCount, closerVars, nonPoolVars>>

\* task() returns: runningTasks is decremented, back to the select
WorkerTaskDone(w) ==
    /\ PoolLive
    /\ w \in DOMAIN wPC /\ wPC[w] = "run"
    /\ wPC' = [wPC EXCEPT ![w] = "idle"]
    /\ wTask' = [wTask EXCEPT ![w] = 0]
    /\ runningTasks' = runningTasks - 1
    /\ UNCHANGED <<poolCfg, pRunning, ctxVars, chanVars, muVars, subVars,
                   execCount, closerVars, nonPoolVars>>

\* ---------------------------------------------------------------- Submit
SomeCloseReturned == \E c \in DOMAIN closerPC : closerPC[c] = "returned"

\* if p.rejectHandler != nil { p.rejectHandler(task) }: the calls it makes
Rejections == IF pReject THEN 1 ELSE 0

AlwaysRunning == TRUE
\* Submit's test of p.running under the read lock
SeenRunning == pRunning

\* Submit(task) of task t, from the moment p.mu.RLock() is granted (a call
\* made earlier waits in RLock and has no effect until then):
\* if !p.running the task is rejected and Submit returns "worker pool is
\* closed" (the deferred RUnlock), otherwise Submit enters its select
\* holding the read lock
Submit(t) ==
    /\ PoolLive
    /\ t = Len(subPC) + 1
    /\ muWriter = 0
    /\ afterClose' = IF SomeCloseReturned THEN afterClose \cup {t} ELSE afterClose
    /\ afterCancel' = IF parentDone THEN afterCancel \cup {t} ELSE afterCancel
    /\ execCount' = Append(execCount, 0)
    /\ IF ~SeenRunning
         THEN /\ rejectCount' = Append(rejectCount, Rejections)
              /\ subPC' = Append(subPC, "closed")
              /\ UNCHANGED muVars
         ELSE /\ rejectCount' = Append(rejectCount, 0)
              /\ subPC' = Append(subPC, "select")
              /\ muReaders' = muReaders \cup {t}
              /\ UNCHANGED muWriter
    /\ UNCHANGED <<poolCfg, pRunning, ctxVars, chanVars, wPC, wTask, runningTasks,
                   closerVars, nonPoolVars>>

\* the Submit call of task t stands in its select
InSelect(t) == t \in DOMAIN subPC /\ subPC[t] = "select"

\* Submit's select, case <-p.ctx.Done(): reject, "worker pool is closing"
SubmitCtxDone(t) ==
    /\ PoolLive
    /\ InSelect(t)
    /\ ctxDone
    /\ rejectCount' = [rejectCount EXCEPT ![t] = @ + Rejections]
    /\ subPC' = [subPC EXCEPT ![t] = "closing"]
    /\ muReaders' = muReaders \ {t}
    /\ UNCHANGED <<poolCfg, pRunning, ctxVars, chanVars, muWriter, afterClose,
                   afterCancel, workerVars, closerVars, nonPoolVars>>

\* Submit's select, case p.tasksC <- task into the buffer: return nil
\* (a send on a closed channel panics)
SubmitSend(t) ==
    /\ PoolLive
    /\ InSelect(t)
    /\ IF tasksClosed
         THEN /\ poolPanic' = TRUE
              /\ UNCHANGED <<tasksC, subPC, muReaders>>
         ELSE /\ Len(tasksC) < pBuf
              /\ tasksC' = Append(tasksC, t)
              /\ subPC' = [subPC EXCEPT ![t] = "ok"]
              /\ muReaders' = muReaders \ {t}
              /\ UNCHANGED poolPanic
    /\ UNCHANGED <<poolCfg, pRunning, ctxVars, tasksClosed, muWriter, rejectCount,
                   afterClose, afterCancel, workerVars, closerVars, nonPoolVars>>

\* Submit's select, case p.tasksC <- task on the unbuffered channel: the
\* rendezvous with a worker standing in its select, which starts the task
SubmitHandoff(t, w) ==
    /\ PoolLive
    /\ InSelect(t)
    /\ pBuf = 0 /\ ~tasksClosed
    /\ Idle(w)
    /\ StartTask(w, t)
    /\ subPC' = [subPC EXCEPT ![t] = "ok"]
    /\ muReaders' = muReaders \ {t}
    /\ UNCHANGED <<poolCfg, pRunning, ctxVars, chanVars, muWriter, rejectCount,
                   afterClose, afterCancel, closerVars, nonPoolVars>>

\* ---------------------------------------------------------------- Close
\* close(p.tasksC); closing a closed channel panics
CloseTasksC ==
    IF tasksClosed THEN poolPanic' = TRUE /\ UNCHANGED tasksClosed
                   ELSE tasksClosed' = TRUE /\ UNCHANGED poolPanic

\* p.mu.Lock() is granted to call c when nobody holds the lock (a call
\* made earlier waits in Lock and has no effect until then)
LockNotExclusive(c) ==
    /\ PoolLive
    /\ c = Len(closerPC) + 1
    /\ muWriter = 0
LockGranted(c) ==
    /\ PoolLive
    /\ c = Len(closerPC) + 1
    /\ muWriter = 0 /\ muReaders = {}

\* Close(), from the moment the lock is granted: if !p.running return;
\* running = false; cancel(); close(p.tasksC); then it stands in p.wg.Wait()
PoolClose(c) ==
    /\ LockGranted(c)
    /\ closerKind' = Append(closerKind, "Close")
    /\ closerRes' = Append(closerRes, FALSE)
    /\ helperPC' = Append(helperPC, "none")
    /\ IF ~pRunning
         THEN /\ closerPC' = Append(closerPC, "returned")
              /\ UNCHANGED <<pRunning, ctxDone, tasksClosed, poolPanic, muWriter>>
         ELSE /\ pRunning' = FALSE
              /\ ctxDone' = TRUE
              /\ CloseTasksC
              /\ muWriter' = c
              /\ closerPC' = Append(closerPC, "wait")
    /\ UNCHANGED <<poolCfg, parentDone, tasksC, muReaders, subVars, workerVars,
                   nonPoolVars>>

\* Close: p.wg.Wait() returns, the deferred Unlock runs
PoolCloseWait(c) ==
    /\ PoolLive
    /\ c \in DOMAIN closerPC /\ closerPC[c] = "wait"
    /\ AllExited
    /\ closerPC' = [closerPC EXCEPT ![c] = "returned"]
    /\ muWriter' = 0
    /\ UNCHANGED <<poolCfg, pRunning, ctxVars, chanVars, muReaders, subVars,
                   workerVars, closerKind, closerRes, helperPC, nonPoolVars>>

\* CloseWithTimeout(timeout), from the moment the lock is granted:
\* if !p.running return true; running = false; cancel(); the goroutine is
\* started; then it stands in its select
CloseWithTimeout(c) ==
    /\ LockGranted(c)
    /\ closerKind' = Append(closerKind, "CloseWithTimeout")
    /\ IF ~pRunning
         THEN /\ closerPC' = Append(closerPC, "returned")
              /\ closerRes' = Append(closerRes, TRUE)
              /\ helperPC' = Append(helperPC, "none")
              /\ UNCHANGED <<pRunning, ctxDone, muWriter>>
         ELSE /\ pRunning' = FALSE
              /\ ctxDone' = TRUE
              /\ muWriter' = c
              /\ helperPC' = Append(helperPC, "close")
              /\ closerPC' = Append(closerPC, "select")
              /\ closerRes' = Append(closerRes, FALSE)
    /\ UNCHANGED <<poolCfg, parentDone, chanVars, muReaders, subVars, workerVars,
                   nonPoolVars>>

\* the goroutine of CloseWithTimeout: close(p.tasksC)
HelperCloseTasksC(c) ==
    /\ PoolLive
    /\ c \in DOMAIN helperPC /\ helperPC[c] = "close"
    /\ CloseTasksC
    /\ helperPC' = [helperPC EXCEPT ![c] = "wait"]
    /\ UNCHANGED <<poolCfg, pRunning, ctxVars, tasksC, muVars, subVars, workerVars,
                   closerPC, closerKind, closerRes, nonPoolVars>>

\* the goroutine of CloseWithTimeout: p.wg.Wait() returns, close(done)
HelperWaitDone(c) ==
    /\ PoolLive
    /\ c \in DOMAIN helperPC /\ helperPC[c] = "wait"
    /\ AllExited
    /\ helperPC' = [helperPC EXCEPT ![c] = "exit"]
    /\ UNCHANGED <<poolCfg, pRunning, ctxVars, chanVars, muVars, subVars, workerVars,
                   closerPC, closerKind, closerRes, nonPoolVars>>

\* CloseWithTimeout's select, case <-done: return true
CloseWithTimeoutDone(c) ==
    /\ PoolLive
    /\ c \in DOMAIN closerPC /\ closerPC[c] = "select"
    /\ helperPC[c] = "exit"
    /\ closerPC' = [closerPC EXCEPT ![c] = "returned"]
    /\ closerRes' = [closerRes EXCEPT ![c] = TRUE]
    /\ muWriter' = 0
    /\ UNCHANGED <<poolCfg, pRunning, ctxVars, chanVars, muReaders, subVars,
                   workerVars, closerKind, helperPC, nonPoolVars>>

\* CloseWithTimeout's select, case <-time.After(timeout): return false
\* (the timer may fire at any moment)
CloseWithTimeoutExpired(c) ==
    /\ PoolLive
    /\ c \in DOMAIN closerPC /\ closerPC[c] = "select"
    /\ closerPC' = [closerPC EXCEPT ![c] = "returned"]
    /\ closerRes' = [closerRes EXCEPT ![c] = FALSE]
    /\ muWriter' = 0
    /\ UNCHANGED <<poolCfg, pRunning, ctxVars, chanVars, muReaders, subVars,
                   workerVars, closerKind, helperPC, nonPoolVars>>

\* ---------------------------------------------------------------- pool specs
\* construction, Submit calls and the workers
PoolOpenStep ==
    \/ \E workers \in WorkerArgs, size \in BufferArgs, withCtx, reject \in BOOLEAN :
           NewWorkerPool(workers, size, withCtx, reject)
    \/ \E t \in Tasks : Submit(t)
    \/ \E t \in Tasks : SubmitSend(t)
    \/ \E t \in Tasks, w \in Workers : SubmitHandoff(t, w)
    \/ \E w \in Workers : WorkerReceive(w)
    \/ \E w \in Workers : WorkerTaskDone(w)

\* cancellation, Close and CloseWithTimeout, and what they make ready
PoolShutdownStep ==
    \/ ParentCancel
    \/ \E t \in Tasks : SubmitCtxDone(t)
    \/ \E w \in Workers : WorkerCtxDone(w)
    \/ \E w \in Workers : WorkerChannelClosed(w)
    \/ \E c \in Closers : PoolClose(c)
    \/ \E c \in Closers : CloseWithTimeout(c)
    \/ \E c \in Closers : PoolCloseWait(c)
    \/ \E c \in Closers : HelperCloseTasksC(c)
    \/ \E c \in Closers : HelperWaitDone(c)
    \/ \E c \in Closers : CloseWithTimeoutDone(c)
    \/ \E c \in Closers : CloseWithTimeoutExpired(c)

PoolNext == PoolOpenStep \/ PoolShutdownStep

\* the pool starts unconstructed; the pipeline beside it is left alone
PoolInit0 == Init /\ pipelineCount = 1

PoolSpec == PoolInit0 /\ [][PoolNext]_vars

PoolTypeOK ==
    /\ poolPC \in {"new", "open"}
    /\ pWorkers \in 0 .. MaxWorkers /\ pBuf \in 0 .. MaxBufferSize
    /\ Len(tasksC) <= pBuf
    /\ runningTasks \in 0 .. MaxWorkers
    /\ muWriter \in 0 .. MaxCloseCalls
    /\ muWriter # 0 => muReaders = {}
    /\ DOMAIN subPC \subseteq Tasks /\ DOMAIN wPC = 1 .. pWorkers
    /\ DOMAIN closerPC \subseteq Closers
    /\ \A t \in DOMAIN subPC : subPC[t] \in {"select", "ok", "closed", "closing"}
    /\ \A w \in DOMAIN wPC : wPC[w] \in {"idle", "run", "exited"}
    /\ \A c \in DOMAIN closerPC : closerPC[c] \in {"wait", "select", "returned"}
    /\ \A c \in DOMAIN helperPC : helperPC[c] \in {"none", "close", "wait", "exit"}
    /\ ~poolPanic

\* The Go scheduler runs every worker; tasks return.
WorkerFairness ==
    \A w \in Workers : WF_vars(WorkerReceive(w)) /\ WF_vars(WorkerTaskDone(w))

\* the pool is never closed and its context never cancelled
PoolOpenSpec == PoolInit0 /\ [][PoolOpenStep]_vars /\ WorkerFairness

\* the task of Submit call t is inside no worker
NotRunning(t) == \A w \in DOMAIN wTask : wTask[w] # t

\* ---------------------------------------------------------------- C17
\* C17: a Submit made after a Close or CloseWithTimeout call has returned
\* returns "worker pool is closed", has called the configured reject handler
\* exactly once (never without one), and its task is never executed.
C17_SubmitAfterCloseRejected ==
    \A t \in afterClose :
        /\ subPC[t] = "closed"
        /\ rejectCount[t] = (IF pReject THEN 1 ELSE 0)
        /\ execCount[t] = 0
        /\ NotRunning(t)

\* a task submitted after a CloseWithTimeout that timed out, with a handler
C17_Witness ==
    \E t \in afterClose :
        /\ subPC[t] = "closed" /\ pReject /\ rejectCount[t] = 1
        /\ \E c \in DOMAIN closerPC : /\ closerKind[c] = "CloseWithTimeout"
                                      /\ closerPC[c] = "returned" /\ ~closerRes[c]

\* ---------------------------------------------------------------- C18
\* C18: with WithContext and no Close, a Submit made after the supplied
\* context was cancelled is rejected ("worker pool is closing", once it
\* returns) and its task is never executed.
C18_SubmitAfterCancelRejected ==
    closerPC = << >> =>
        \A t \in afterCancel : /\ subPC[t] \in {"select", "closing"}
                               /\ execCount[t] = 0

\* ---------------------------------------------------------------- C19
\* Submit of task t returned nil
Accepted(t) == IF t \in DOMAIN subPC THEN subPC[t] = "ok" ELSE FALSE
\* task t was started once and has returned
Executed(t) == IF t \in DOMAIN execCount THEN execCount[t] = 1 /\ NotRunning(t) ELSE FALSE

\* C19: in a pool that is neither closed nor cancelled, no task is started
\* more than once, and every task whose Submit returned nil is eventually
\* executed: started once and returned.
C19_AcceptedRunsOnce ==
    /\ [](\A t \in DOMAIN execCount : execCount[t] <= 1)
    /\ \A t \in Tasks : Accepted(t) ~> Executed(t)

\* every task was accepted while a worker was busy and one waits in the buffer
C19_Witness ==
    /\ DOMAIN subPC = Tasks
    /\ \A t \in Tasks : subPC[t] = "ok"
    /\ tasksC # << >>
    /\ \E w \in DOMAIN wPC : wPC[w] = "run"

\* ---------------------------------------------------------------- C20
\* C20: a CloseWithTimeout call that returns true returns when every worker
\* goroutine has exited; this holds for every call, also one made after an
\* earlier call returned false.
C20_TrueOnlyWhenWorkersExited ==
    [][\A c \in DOMAIN closerPC' :
          (/\ closerPC'[c] = "returned"
           /\ IF c \in DOMAIN closerPC THEN closerPC[c] # "returned" ELSE TRUE
           /\ closerKind'[c] = "CloseWithTimeout"
           /\ closerRes'[c])
          => AllExited']_vars

\* ================================================================ cache/fifo
\* what the steps of the cache leave alone
nonCacheVars == <<pipeVars, ctorVars, poolVars, writerVars, mon, roller>>

Keys == 1 .. MaxKeys
Values == 1 .. MaxValues

\* s without the key k
Without(s, k) == SelectSeq(s, LAMBDA x : x # k)

\* list.PushFront
PushFront(l, k) == <<k>> \o l
\* list.MoveToFront
MoveToFrontStays(l, k) == l
MoveToFront(l, k) == <<k>> \o Without(l, k)
\* list.Back: the key of the last element, 0 for nil (empty list)
Back(l) == IF Len(l) = 0 THEN 0 ELSE l[Len(l)]
\* delete(c.cache, k)
DeleteNothing(m, k) == m
Delete(m, k) == [x \in (DOMAIN m) \ {k} |-> m[x]]
\* c.cache[k] = newEle
Store(m, k, v) == [x \in (DOMAIN m) \cup {k} |-> IF x = k THEN v ELSE m[x]]
\* the calls of c.onRemoved made for the removed entries: none when it is nil
Callbacks(entries) == IF fifo.onRemoved THEN entries ELSE << >>

\* NewFIFOCache(maxElements, threadSafe): an empty cache, no callback
NewFIFOCache(n) ==
    /\ fifo.pc = "new"
    /\ fifo' = [pc |-> "ready", maxElements |-> n, currentElements |-> 0,
                list |-> << >>, cache |-> << >>, onRemoved |-> FALSE,
                putOrder |-> << >>,
                lastOp |-> [NoOp EXCEPT !.op = "NewFIFOCache"]]
    /\ UNCHANGED nonCacheVars

\* SetOnRemovedCallBack(callback): callback may be nil
SetOnRemovedCallBack(cb) ==
    /\ fifo.pc = "ready"
    /\ fifo' = [fifo EXCEPT !.onRemoved = cb,
                            !.lastOp = [NoOp EXCEPT !.op = "SetOnRemovedCallBack"]]
    /\ UNCHANGED nonCacheVars

\* putAndOverwriteIfExist(k, v, overwrite), called by op
putAndOverwriteIfExist(op, k, v, overwrite) ==
    /\ fifo' =
         IF k \in DOMAIN fifo.cache
         THEN IF overwrite
              THEN [fifo EXCEPT
                      !.list = MoveToFront(@, k),
                      !.cache[k] = v,
                      !.putOrder = Append(Without(@, k), k),
                      !.lastOp = [op |-> op, key |-> k, value |-> v, ret |-> TRUE,
                                  removed |-> << >>, calls |-> << >>]]
              ELSE [fifo EXCEPT
                      !.lastOp = [op |-> op, key |-> k, value |-> v, ret |-> FALSE,
                                  removed |-> << >>, calls |-> << >>]]
         ELSE LET newList == PushFront(fifo.list, k)
                  newCache == Store(fifo.cache, k, v)
                  eliminate == fifo.currentElements + 1 > fifo.maxElements
                                  /\ Back(newList) # 0
                  eleEliminated == Back(newList)
                  entryEliminated == <<eleEliminated, newCache[eleEliminated]>>
              IN  IF eliminate
                  THEN [fifo EXCEPT
                          !.cache = Delete(newCache, eleEliminated),
                          !.list = Without(newList, eleEliminated),
                          !.putOrder = Without(Append(@, k), eleEliminated),
                          !.lastOp = [op |-> op, key |-> k, value |-> v,
                                      ret |-> TRUE,
                                      removed |-> <<entryEliminated>>,
                                      calls |-> Callbacks(<<entryEliminated>>)]]
                  ELSE [fifo EXCEPT
                          !.cache = newCache,
                          !.list = newList,
                          !.currentElements = @ + 1,
                          !.putOrder = Append(@, k),
                          !.lastOp = [op |-> op, key |-> k, value |-> v,
                                      ret |-> TRUE, removed |-> << >>,
                                      calls |-> << >>]]
    /\ UNCHANGED nonCacheVars

\* Put(k, v)
Put(k, v) ==
    /\ fifo.pc = "ready"
    /\ putAndOverwriteIfExist("Put", k, v, TRUE)

\* PutIfNotExist(k, v)
PutIfNotExistOverwrites(k, v) ==
    /\ fifo.pc = "ready"
    /\ putAndOverwriteIfExist("PutIfNotExist", k, v, TRUE)
PutIfNotExist(k, v) ==
    /\ fifo.pc = "ready"
    /\ putAndOverwriteIfExist("PutIfNotExist", k, v, FALSE)

\* Get(k): the value and whether the key was found
Get(k) ==
    /\ fifo.pc = "ready"
    /\ fifo' = [fifo EXCEPT
                  !.lastOp = [NoOp EXCEPT
                                !.op = "Get", !.key = k,
                                !.value = IF k \in DOMAIN fifo.cache
                                          THEN fifo.cache[k] ELSE 0,
                                !.ret = k \in DOMAIN fifo.cache]]
    /\ UNCHANGED nonCacheVars

\* Remove(k)
Remove(k) ==
    /\ fifo.pc = "ready"
    /\ fifo' =
         IF k \in DOMAIN fifo.cache
         THEN [fifo EXCEPT
                 !.list = Without(@, k),
                 !.cache = Delete(@, k),
                 !.currentElements = @ - 1,
                 !.putOrder = Without(@, k),
                 !.lastOp = [op |-> "Remove", key |-> k, value |-> 0, ret |-> TRUE,
                             removed |-> << <<k, fifo.cache[k]>> >>,
                             calls |-> Callbacks(<< <<k, fifo.cache[k]>> >>)]]
         ELSE [fifo EXCEPT !.lastOp = [NoOp EXCEPT !.op = "Remove", !.key = k]]
    /\ UNCHANGED nonCacheVars

\* Exist(k)
Exist(k) ==
    /\ fifo.pc = "ready"
    /\ fifo' = [fifo EXCEPT
                  !.lastOp = [NoOp EXCEPT !.op = "Exist", !.key = k,
                                          !.ret = k \in DOMAIN fifo.cache]]
    /\ UNCHANGED nonCacheVars

\* Clear(): a new map and a new list; the entries dropped are the old list's
Clear ==
    /\ fifo.pc = "ready"
    /\ fifo' = [fifo EXCEPT
                  !.currentElements = 0,
                  !.cache = << >>,
                  !.list = << >>,
                  !.putOrder = << >>,
                  !.lastOp = [NoOp EXCEPT
                                !.op = "Clear",
                                !.removed = [i \in 1 .. Len(fifo.list) |->
                                               <<fifo.list[i], fifo.cache[fifo.list[i]]>>]]]
    /\ UNCHANGED nonCacheVars

\* Size()
Size ==
    /\ fifo.pc = "ready"
    /\ fifo' = [fifo EXCEPT
                  !.lastOp = [NoOp EXCEPT !.op = "Size",
                                          !.value = fifo.currentElements]]
    /\ UNCHANGED nonCacheVars

CacheNext ==
    \/ \E n \in -1 .. MaxElements : NewFIFOCache(n)
    \/ \E cb \in BOOLEAN : SetOnRemovedCallBack(cb)
    \/ \E k \in Keys, v \in Values : Put(k, v)
    \/ \E k \in Keys, v \in Values : PutIfNotExist(k, v)
    \/ \E k \in Keys : Get(k)
    \/ \E k \in Keys : Remove(k)
    \/ \E k \in Keys : Exist(k)
    \/ Clear
    \/ Size

\* the cache starts unconstructed; one pipeline configuration is enough
\* where only the cache moves
CacheInit0 == Init /\ pipelineCount = 1
CacheSpec == CacheInit0 /\ [][CacheNext]_vars

\* C21: a Put or PutIfNotExist of a key the cache does not hold, made when the
\* cache is full, removes exactly one entry: the one whose latest insertion
\* or overwriting Put is the oldest (the new entry counts as the newest; with
\* no room at all it is the only one).  A put of a key the cache holds
\* removes nothing, and neither does a put into a cache with room.
C21_EvictsOldestPut ==
    [][(fifo'.lastOp.op \in {"Put", "PutIfNotExist"}) =>
          LET k == fifo'.lastOp.key
              oldest == Head(Append(fifo.putOrder, k))
              full == fifo.currentElements >= fifo.maxElements
          IN  IF k \notin DOMAIN fifo.cache /\ full
              THEN /\ Len(fifo'.lastOp.removed) = 1
                   /\ fifo'.lastOp.removed[1][1] = oldest
                   /\ DOMAIN fifo'.cache = ((DOMAIN fifo.cache) \cup {k}) \ {oldest}
              ELSE /\ fifo'.lastOp.removed = << >>
                   /\ DOMAIN fifo'.cache = (DOMAIN fifo.cache) \cup {k}]_vars

\* a put evicted a key that was inserted first but is not the oldest any more:
\* the list holds the key inserted before the evicted one was
C21_Witness ==
    /\ fifo.lastOp.op \in {"Put", "PutIfNotExist"} /\ fifo.maxElements >= 2
    /\ Len(fifo.lastOp.removed) = 1
    /\ \E k \in DOMAIN fifo.cache :
          k < fifo.lastOp.removed[1][1] /\ k # fifo.lastOp.key
    /\ fifo.lastOp.key = MaxKeys

\* C22: PutIfNotExist(k, v) returns true exactly when the cache did not hold k
\* before the call; when it held k the call returns false and the stored
\* values, the order of the list (the eviction order), the size and the
\* callback count are what they were: no callback is made.
C22_PutIfNotExistKeeps ==
    [][(fifo'.lastOp.op = "PutIfNotExist") =>
          LET k == fifo'.lastOp.key
          IN  /\ fifo'.lastOp.ret = (k \notin DOMAIN fifo.cache)
              /\ (k \in DOMAIN fifo.cache) =>
                    /\ fifo'.cache = fifo.cache
                    /\ fifo'.list = fifo.list
                    /\ fifo'.putOrder = fifo.putOrder
                    /\ fifo'.currentElements = fifo.currentElements
                    /\ fifo'.lastOp.calls = << >>]_vars

\* PutIfNotExist was refused on a full cache with a callback, for a key that
\* is not the newest and holds another value than the one offered
C22_Witness ==
    /\ fifo.lastOp.op = "PutIfNotExist" /\ ~fifo.lastOp.ret
    /\ fifo.onRemoved /\ fifo.maxElements >= 2
    /\ fifo.currentElements >= fifo.maxElements
    /\ fifo.cache[fifo.lastOp.key] # fifo.lastOp.value
    /\ fifo.list[1] # fifo.lastOp.key

\* how many times e occurs in s
Count(s, e) == Cardinality({ i \in 1 .. Len(s) : s[i] = e })

\* C23: with a callback registered, every call makes exactly one callback,
\* with the key and the latest value, for each entry it removed from the
\* cache (by eviction, Remove or Clear) and none for any other entry.
C23_CallbackForEveryRemoval ==
    fifo.onRemoved =>
        \A e \in Range(fifo.lastOp.removed) \cup Range(fifo.lastOp.calls) :
            Count(fifo.lastOp.calls, e) = Count(fifo.lastOp.removed, e)

\* ================================================================ filewriter/size_rolling
\* what the steps of the writer leave alone
nonWriterVars == <<pipeVars, ctorVars, poolVars, fifo, mon, roller>>

\* the byte slices given to Write: up to one byte more than the largest limit;
\* the bytes are all the same, a content is told by its length
Payloads == { [i \in 1 .. n |-> "a"] : n \in 1 .. (MaxSizeLimit + 1) }

\* the indexes of the backup files of d
Backups(d) == { k \in DOMAIN d : k >= 1 }

\* sort.Slice(files, getFileIndex descending): the indexes of the files of d
RECURSIVE SortedFiles(_)
SortedFiles(idx) ==
    IF idx = {} THEN << >>
    ELSE LET top == CHOOSE k \in idx : \A x \in idx : x <= k
         IN  <<top>> \o SortedFiles(idx \ {top})

\* os.Remove(file)
RemoveFile(d, k) == [x \in (DOMAIN d) \ {k} |-> d[x]]
\* os.Rename(from, to): replaces the file at to
Rename(d, from, to) ==
    [x \in ((DOMAIN d) \ {from}) \cup {to} |-> IF x = to THEN d[from] ELSE d[x]]

\* if maxBackups < 0 { maxBackups = 0 }
ClampBackups(b) == IF b < 0 THEN 0 ELSE b

\* the backup at fileIndexInt is removed rather than renamed
RemovesBackup(fileCount, fileIndexInt) ==
    fileCount > writer.maxBackups /\ fileIndexInt > writer.maxBackups - 1

\* the loop of tryRotate over the sorted files
RECURSIVE RotateFiles(_, _, _)
RotateFiles(d, files, fileCount) ==
    IF files = << >> THEN d
    ELSE LET fileIndexInt == Head(files)
         IN  IF fileIndexInt = 0
             THEN RotateFiles(d, Tail(files), fileCount - 1)
             ELSE IF RemovesBackup(fileCount, fileIndexInt)
                  THEN RotateFiles(RemoveFile(d, fileIndexInt), Tail(files),
                                   fileCount - 1)
                  ELSE RotateFiles(Rename(d, fileIndexInt, fileIndexInt + 1),
                                   Tail(files), fileCount)

\* openFile: O_APPEND|O_CREATE on the base file name
OpenFile(d) == IF 0 \in DOMAIN d THEN d ELSE [x \in (DOMAIN d) \cup {0} |-> IF x = 0 THEN << >> ELSE d[x]]

\* tryRotate returns at once
NoRotation(bytesLength) ==
    \/ writer.currentSize = 0
    \/ writer.currentSize + bytesLength <= writer.fileSizeLimit

\* the directory tryRotate(bytesLength) leaves
tryRotate(bytesLength) ==
    IF NoRotation(bytesLength) THEN dir
    ELSE LET shifted == RotateFiles(dir, SortedFiles(DOMAIN dir), Cardinality(DOMAIN dir))
             moved == IF writer.file /\ 0 \in DOMAIN shifted
                      THEN Rename(shifted, 0, 1) ELSE shifted
         IN  OpenFile(moved)

\* NewSizeRollingFileWriter(basePath, baseFileName, b, limit): openFile, then
\* tryRotate(0), which returns at once on the empty file
NewSizeRollingFileWriter(b, limit) ==
    /\ writer.pc = "new"
    /\ dir' = OpenFile(dir)
    /\ writer' = [pc |-> "made", backupsArg |-> b, maxBackups |-> ClampBackups(b),
                  fileSizeLimit |-> limit, file |-> TRUE,
                  currentSize |-> Len(OpenFile(dir)[0]), closeCalls |-> 0,
                  lastWrite |-> NoWrite]
    /\ UNCHANGED nonWriterVars

\* Write(bz): tryRotate(len(bz)), then w.file.Write(bz), which fails on a
\* nil file (after Close, when tryRotate did not open a new one)
Write(bz) ==
    /\ writer.pc = "made"
    /\ LET rotated == ~NoRotation(Len(bz))
           opened == writer.file \/ rotated
           d == tryRotate(Len(bz))
       IN  IF opened
           THEN /\ dir' = [d EXCEPT ![0] = d[0] \o bz]
                /\ writer' = [writer EXCEPT
                                !.file = TRUE,
                                !.currentSize = (IF rotated THEN Len(d[0]) ELSE @)
                                                   + Len(bz),
                                !.lastWrite = [bz |-> bz, rotated |-> rotated,
                                               n |-> Len(bz), err |-> FALSE]]
           ELSE /\ dir' = d
                /\ writer' = [writer EXCEPT
                                !.lastWrite = [bz |-> bz, rotated |-> rotated,
                                               n |-> 0, err |-> TRUE]]
    /\ UNCHANGED nonWriterVars

\* Close(): closes the file and forgets it
WriterClose ==
    /\ writer.pc = "made"
    /\ writer.closeCalls < MaxWriterCloses
    /\ writer' = [writer EXCEPT !.closeCalls = @ + 1, !.file = FALSE,
                                !.lastWrite = NoWrite]
    /\ UNCHANGED <<dir, nonWriterVars>>

WriterNext ==
    \/ \E b \in -1 .. MaxBackups, limit \in 1 .. MaxSizeLimit :
           NewSizeRollingFileWriter(b, limit)
    \/ \E bz \in Payloads : Write(bz)
    \/ WriterClose

\* the writer starts unconstructed, its directory empty; one pipeline
\* configuration is enough where only the writer moves
WriterInit0 == Init /\ pipelineCount = 1
WriterSpec == WriterInit0 /\ [][WriterNext]_vars

\* C24: a writer created with maxBackups = b >= 0 never has more than b
\* backup files in its directory.
C24_AtMostMaxBackups ==
    (writer.pc = "made" /\ writer.backupsArg >= 0) =>
        Cardinality(Backups(dir)) <= writer.backupsArg

\* C25: with a negative maxBackups a rotation by an open writer deletes no
\* backup: every backup k is found at k + 1 afterwards, and there is one
\* backup more than before.
C25_NegativeKeepsAllBackups ==
    [][(/\ writer.backupsArg < 0 /\ writer.file
        /\ writer'.lastWrite.bz # << >> /\ writer'.lastWrite.rotated) =>
          /\ \A k \in Backups(dir) :
                (k + 1) \in Backups(dir') /\ dir'[k + 1] = dir[k]
          /\ Cardinality(Backups(dir')) = Cardinality(Backups(dir)) + 1]_vars

\* C26: no file of the directory, current or backup, is larger than
\* fileSizeLimit.
C26_NoFileAboveLimit ==
    writer.pc = "made" =>
        \A k \in DOMAIN dir : Len(dir[k]) <= writer.fileSizeLimit

\* C27: Write(bz) rotates exactly when the current file is not empty and
\* currentSize + len(bz) exceeds fileSizeLimit; after such a Write backup 1
\* holds what the current file held, every backup k + 1 that stands for an
\* older backup k holds what k held, and the current file holds exactly bz.
C27_WriteRotates ==
    [][(writer'.lastWrite.bz # << >>) =>
          LET bz == writer'.lastWrite.bz
              due == /\ dir[0] # << >>
                     /\ writer.currentSize + Len(bz) > writer.fileSizeLimit
          IN  /\ writer'.lastWrite.rotated = due
              /\ due =>
                    /\ 1 \in DOMAIN dir' /\ dir'[1] = dir[0]
                    /\ \A k \in Backups(dir) :
                          (k + 1) \in Backups(dir') => dir'[k + 1] = dir[k]
                    /\ Backups(dir') \subseteq {1} \cup { k + 1 : k \in Backups(dir) }
                    /\ dir'[0] = bz]_vars

\* ================================================================ pipeline, continued
\* the stages that hold job j: in their queue, or in the hands of their loop
Holders(j) == { i \in Stages : j \in Range(jobC[i]) \/ cur[i] = j }

\* no element of s occurs twice
NoDuplicates(s) == \A a, b \in 1 .. Len(s) : s[a] = s[b] => a = b

\* C28: a stage's loop forwards, delivers or drops a job, and goes past its
\* wait for the job's completion, only after this stage's Task on the job has
\* returned; the loop that waits for a job is the loop of the stage whose
\* Task the job's run goroutine executes; and a Task of a stage after the
\* first is invoked on a job only once the Task of the stage before has
\* returned on it.
C28_HandledAfterOwnTask ==
    /\ \A i \in Stages : \A j \in Range(handledSeq[i]) : <<j, i>> \in returned
    /\ \A i \in Stages : loopPC[i] \in {"output", "do"} => <<cur[i], i>> \in returned
    /\ \A i \in Stages : loopPC[i] = "wait" => jtp[cur[i]] = i
    /\ \A p \in invoked : p[2] > 0 => <<p[1], p[2] - 1>> \in returned

\* a job went through two stages and was delivered
C28_Witness ==
    /\ pipelineCount >= 2
    /\ \E j \in Range(receivedIds) :
          /\ j \in Range(handledSeq[0]) /\ j \in Range(handledSeq[LastStage])
          /\ <<j, 0>> \in returned /\ <<j, LastStage>> \in returned

\* C29: a job is held by at most one stage at any instant, and only once
\* there; no job is admitted to a stage twice and no Task is invoked on a
\* <<job, stage>> it was invoked on before; no job has two values on the
\* result queue.
C29_SingleOwner ==
    /\ [](\A j \in JobIds :
             /\ Cardinality(Holders(j)) <= 1
             /\ \A i \in Stages :
                   /\ Cardinality({ k \in 1 .. Len(jobC[i]) : jobC[i][k] = j }) <= 1
                   /\ ~(j \in Range(jobC[i]) /\ cur[i] = j))
    /\ [](\A i \in Stages : NoDuplicates(admitSeq[i]))
    /\ [](NoDuplicates(receivedIds))
    /\ [][\A j \in JobIds :
             (runPC[j] = "ready" /\ runPC'[j] = "running")
                => <<j, jtp[j]>> \notin invoked]_vars

\* two jobs are in the pipeline at once, in different stages, and one was
\* delivered before
C29_Witness ==
    /\ \E j \in JobIds : Holders(j) = {0}
    /\ \E j \in JobIds : Holders(j) = {LastStage} /\ LastStage > 0
    /\ \E j \in JobIds : j \in Range(admitSeq[0]) /\ j \in Range(admitSeq[LastStage])
                            /\ LastStage > 0

\* C30: a run goroutine whose Task has returned stands in its select, and
\* leaves it only by handing its signal to the loop that waits for its job or
\* by the shutdown broadcast; a job leaves an admission queue only into the
\* hands of the queue's loop.  So the job of a finished Task that waits in
\* the queue behind an unfinished one is not lost.
C30_FinishedJobWaits ==
    [][\A j \in JobIds :
          /\ (runPC[j] = "running" /\ runPC'[j] # "running")
                => runPC'[j] = "finished"
          /\ (runPC[j] = "finished" /\ runPC'[j] # "finished")
                => /\ runPC'[j] = "exit"
                   /\ closed \/ \E i \in Stages : cur[i] = j /\ loopPC[i] = "wait"
          /\ \A i \in Stages :
                (j \in Range(jobC[i]) /\ j \notin Range(jobC'[i]))
                   => cur'[i] = j /\ jobC[i][1] = j]_vars

\* a job's Task has returned while the job is still in the queue, behind the
\* job its stage's loop waits for, whose Task has not returned
C30_Witness ==
    /\ ~closed
    /\ \E i \in Stages : \E j \in Range(jobC[i]) :
          /\ runPC[j] = "finished" /\ jtp[j] = i
          /\ loopPC[i] = "wait" /\ cur[i] # 0
          /\ runPC[cur[i]] \in {"ready", "running"}
          /\ j \in early

\* ---------------------------------------------------------------- C31
\* C31: after Close, every run goroutine whose Task has returned eventually
\* terminates: it does not stay blocked in its send on FinishedC, whether or
\* not its stage's loop has exited or has dequeued the job. A goroutine
\* leaves "finished" only by ending, and there are finitely many jobs, so
\* this is: from some point on, no goroutine is waiting in that send while
\* the pipeline is closed.
C31_RunTerminatesAfterClose ==
    <>[](closed => \A j \in JobIds : runPC[j] # "finished")

\* a run goroutine has ended although its job is still in the queue of a
\* stage whose loop has exited: it left by the closeC case
C31_Witness ==
    \E j \in JobIds : /\ closed
                      /\ runPC[j] = "exit"
                      /\ loopPC[jtp[j]] = "done"
                      /\ j \in Range(jobC[jtp[j]])

\* ---------------------------------------------------------------- C32
\* C32: with output suppressed, nobody receiving, Close never called and
\* Tasks that return, every PushJob eventually returns and every pushed
\* job eventually leaves the pipeline (dropped by the stage whose Task
\* returned false, or discarded by the last stage) with its run goroutine
\* ended.
C32_SuppressedNeverStalls ==
    /\ (noOutput /\ callerPC[1] = "do") ~> (callerPC[1] = "idle")
    /\ \A j \in JobIds :
           (noOutput /\ njobs >= j) ~>
               (/\ callerJob[1] # j
                /\ runPC[j] = "exit"
                /\ j \in Range(handledSeq[jtp[j]]))

\* output is suppressed, nothing was closed, every push the caller makes has
\* returned and every job has left: one dropped before the last stage, one
\* discarded by the last stage
C32_Witness ==
    /\ noOutput /\ ~closed
    /\ njobs = MaxJobs /\ callerPC[1] = "idle"
    /\ \A j \in JobIds : runPC[j] = "exit" /\ j \in Range(handledSeq[jtp[j]])
    /\ \E j \in JobIds : jtp[j] = LastStage /\ <<j, LastStage>> \in returned
    /\ \E j \in JobIds : jtp[j] < LastStage

\* ---------------------------------------------------------------- C33
\* C_0 + ... + C_{N-1} + N: every queue full and every loop holding a job
Capacity ==
    LET sum[n \in 0 .. pipelineCount] ==
            IF n = 0 THEN 0 ELSE sum[n - 1] + maxConcurrentQuantities[n - 1] + 1
    IN  sum[pipelineCount]

\* Close is never called, output is not suppressed, the caller makes one
\* PushJob call more than the pipeline can hold
BackpressureInit == Started(Capacity + 1, 1)
\* every Task returns continue=true
BackpressureNext ==
    \/ \E c \in Callers, input \in {InputOf(njobs + 1)} : PushJob(c, input)
    \/ \E c \in Callers : PushEnqueue(c)
    \/ \E j \in Jobs : TaskStart(j)
    \/ \E j \in Jobs : TaskReturn(j, TRUE)
    \/ \E i \in Stages : LoopDequeue(i)
    \/ \E i \in Stages : LoopFinished(i)
    \/ \E i \in Stages : LoopOutput(i)
    \/ \E i \in Stages : LoopDoEnqueue(i)
BackpressureSpec == BackpressureInit /\ [][BackpressureNext]_vars

\* C33: while every Task has returned continue=true, the PushJob calls that
\* have returned never outnumber C_0 + ... + C_{N-1} + N plus the results
\* received: with nothing received at most that many calls return, and the
\* next call returns only after a result has been received.
C33_FixedCapacity ==
    falseAt = {} =>
        njobs - (IF callerPC[1] = "do" THEN 1 ELSE 0) <= Capacity + Len(received)

\* the bound is reached with nothing received, and the next PushJob is
\* blocked in Job.do
C33_Witness ==
    /\ falseAt = {} /\ received = << >>
    /\ njobs = Capacity + 1
    /\ callerPC[1] = "do"

\* ---------------------------------------------------------------- C34
\* several goroutines call PushJob concurrently; Close is never called,
\* output is not suppressed, a consumer keeps receiving
ConcurrentInit == Started(MaxJobs, MaxCallers)
ConcurrentSpec ==
    /\ ConcurrentInit /\ [][DeliverNext]_vars
    /\ SchedulerFairness
    /\ \A i \in AllStages : WF_vars(i \in Stages /\ LoopOutput(i))

\* C34: with concurrent callers and no Close, every job whose PushJob has
\* returned was admitted to stage 0, no job is admitted to a stage twice, and
\* while every Task has returned continue=true the results received are
\* those of the jobs in the order of their admission at stage 0, each the
\* composition of the Tasks on the job's input; every pushed job is
\* eventually delivered unless a Task returned continue=false for it.
C34_ConcurrentPushes ==
    /\ [](\A i \in Stages : NoDuplicates(admitSeq[i]))
    /\ [](\A j \in 1 .. njobs :
             (\A c \in Callers : callerJob[c] # j) => j \in Range(admitSeq[0]))
    /\ [](falseAt = {} =>
             /\ IsPrefix(receivedIds, admitSeq[0])
             /\ \A k \in 1 .. Len(received) :
                    received[k] = ComposeFrom(0, pushed[receivedIds[k]]))
    /\ \A j \in JobIds : (njobs >= j) ~> (Delivered(j) \/ Failed(j))

\* two PushJob calls overlapped: the job created second was admitted first,
\* and the results of both were received in admission order
C34_Witness ==
    /\ falseAt = {}
    /\ Len(admitSeq[0]) >= 2
    /\ admitSeq[0][1] > admitSeq[0][2]
    /\ Len(receivedIds) >= 2
    /\ receivedIds[1] = admitSeq[0][1] /\ receivedIds[2] = admitSeq[0][2]

\* ---------------------------------------------------------------- C35
\* C35: under every interleaving of Submit, Close and CloseWithTimeout calls
\* the process never panics (tasksC is not closed twice, nothing is sent on
\* it once closed): no Submit stands in its select when tasksC is closed; and
\* a Close or CloseWithTimeout that finds the pool closed returns at once and
\* changes nothing of the pool.
C35_CloseOnceNoSendAfterClose ==
    /\ [](~poolPanic)
    /\ [](tasksClosed => \A t \in Tasks : ~InSelect(t))
    /\ [][(Len(closerPC') > Len(closerPC) /\ ~pRunning) =>
             /\ closerPC'[Len(closerPC')] = "returned"
             /\ helperPC'[Len(closerPC')] = "none"
             /\ UNCHANGED <<pRunning, ctxDone, parentDone, tasksC, tasksClosed,
                            muReaders, muWriter, subPC, wPC, wTask, runningTasks>>]_vars

\* a CloseWithTimeout timed out and its goroutine closed tasksC afterwards; a
\* Submit made meanwhile was rejected, and a second closing call returned
C35_Witness ==
    /\ tasksClosed
    /\ Len(closerPC) = 2
    /\ closerKind[1] = "CloseWithTimeout" /\ ~closerRes[1]
    /\ closerPC[1] = "returned" /\ closerPC[2] = "returned"
    /\ \E t \in DOMAIN subPC : subPC[t] = "closed"
    /\ \E t \in DOMAIN subPC : subPC[t] = "ok"

\* ---------------------------------------------------------------- C36
\* C36: when a Close call has returned, every worker goroutine has exited
\* and every task whose Submit returned nil, the tasks buffered in tasksC
\* included, has been executed.
C36_CloseGraceful ==
    \A c \in DOMAIN closerPC :
        (closerKind[c] = "Close" /\ closerPC[c] = "returned") =>
            /\ AllExited
            /\ \A t \in Tasks : Accepted(t) => Executed(t)

\* ---------------------------------------------------------------- C37
\* C37: whatever calls were made on a cache created with maxElements = m,
\* Size() is the number of keys for which Exist is true and the number of
\* list entries, the list holds exactly those keys, and Size() is at most m,
\* or 0 when m is not positive; Remove(k) returns true exactly when k was
\* present, and then Size() goes down by one, otherwise nothing changes.
C37_SizeCountsEntries ==
    /\ [](/\ fifo.currentElements = Cardinality(DOMAIN fifo.cache)
          /\ fifo.currentElements = Len(fifo.list)
          /\ Range(fifo.list) = DOMAIN fifo.cache
          /\ fifo.currentElements <= (IF fifo.maxElements > 0 THEN fifo.maxElements ELSE 0))
    /\ [][fifo'.lastOp.op = "Remove" =>
             /\ fifo'.lastOp.ret = (fifo'.lastOp.key \in DOMAIN fifo.cache)
             /\ fifo'.currentElements =
                    fifo.currentElements - (IF fifo'.lastOp.ret THEN 1 ELSE 0)
             /\ fifo'.lastOp.key \notin DOMAIN fifo'.cache
             /\ \A k \in DOMAIN fifo.cache :
                    k # fifo'.lastOp.key => k \in DOMAIN fifo'.cache]_vars

\* a Remove took one entry out of a cache that had been filled beyond its
\* capacity before
C37_Witness ==
    /\ fifo.lastOp.op = "Remove" /\ fifo.lastOp.ret
    /\ fifo.maxElements = MaxElements
    /\ fifo.currentElements = MaxElements - 1
    /\ fifo.lastOp.key \notin DOMAIN fifo.cache

\* ================================================================
\* filewriter.TimeRollingFileWriter
\* ================================================================
nonRollerVars == <<pipeVars, ctorVars, poolVars, fifo, writerVars, mon>>

\* tryRotate(), in roll periods: nothing before nextCheckTime; otherwise the
\* file named after the current period is opened (created if need be), the
\* check times are set and `go w.tryDeleteOldFiles()` is started
timeTryRotate(w) ==
    IF w.now < w.nextCheckTime
    THEN w
    ELSE [w EXCEPT !.file = w.now,
                   !.files = @ \cup {w.now},
                   !.nextCheckTime = w.now + 1,
                   !.deleteCheckTime = w.now + 1 - w.maxBackups,
                   !.cleanups = IF w.maxBackups >= 0 THEN @ + 1 ELSE @]

\* NewTimeRollingFileWriter(basePath, baseFileName, maxBackups, rollPeriod)
\* with a supported rollPeriod
NewTimeRollingFileWriter(b) ==
    /\ roller.pc = "new"
    /\ roller' = timeTryRotate([roller EXCEPT !.pc = "made",
                                             !.backupsArg = b,
                                             !.maxBackups = IF b < 0 THEN 0 ELSE b])
    /\ UNCHANGED nonRollerVars

\* Write(bz): tryRotate, then w.file.Write(bz), an error on a nil file
RollerWrite ==
    /\ roller.pc = "made"
    /\ roller' = [timeTryRotate(roller) EXCEPT
                    !.writeErr = timeTryRotate(roller).file = -1]
    /\ UNCHANGED nonRollerVars

\* Close(): the file is closed and w.file set to nil
RollerClose ==
    /\ roller.pc = "made"
    /\ roller.closeCalls < MaxWriterCloses
    /\ roller' = [roller EXCEPT !.file = -1, !.closeCalls = @ + 1]
    /\ UNCHANGED nonRollerVars

\* a roll period ends
PeriodEnds ==
    /\ roller.now < MaxPeriods
    /\ roller' = [roller EXCEPT !.now = @ + 1]
    /\ UNCHANGED nonRollerVars

\* the loop of tryDeleteOldFiles over the files sorted newest first: what
\* is left of `kept` after the files of `rest` have been visited
RECURSIVE DeleteOldFiles(_, _, _)
DeleteOldFiles(rest, kept, fileCount) ==
    IF rest = {}
    THEN kept
    ELSE LET file == CHOOSE f \in rest : \A g \in rest : g <= f
             old == file < roller.deleteCheckTime
             count == IF old THEN fileCount - 1 ELSE fileCount
             left == IF old THEN kept \ {file} ELSE kept
         IN  IF count <= roller.maxBackups
             THEN left
             ELSE DeleteOldFiles(rest \ {file}, left, count)

\* a goroutine started by tryRotate runs tryDeleteOldFiles()
tryDeleteOldFiles ==
    /\ roller.cleanups > 0
    /\ roller' = [roller EXCEPT
                    !.cleanups = @ - 1,
                    !.files = IF Cardinality(@) <= roller.maxBackups
                              THEN @
                              ELSE DeleteOldFiles(@, @, Cardinality(@))]
    /\ UNCHANGED nonRollerVars

RollerNext ==
    \/ \E b \in -1 .. MaxBackups : NewTimeRollingFileWriter(b)
    \/ RollerWrite
    \/ RollerClose
    \/ PeriodEnds
    \/ tryDeleteOldFiles

RollerInit0 == Init /\ pipelineCount = 1
RollerSpec == RollerInit0 /\ [][RollerNext]_vars

\* ---------------------------------------------------------------- C39
\* C39: whatever maxBackups the writer was created with, a step never
\* removes from the directory the file that is open for writing, and with a
\* negative maxBackups no step removes any file.
C39_CleanupKeepsOpenFile ==
    [][LET gone == roller.files \ roller'.files
       IN  /\ roller.file \notin gone
           /\ roller.backupsArg < 0 => gone = {}]_vars

\* ================================================================
\* task.TasksMonitor
\* ================================================================
nonMonitorVars == <<pipeVars, ctorVars, poolVars, fifo, writerVars, roller>>

Types == 1 .. MaxTypes

\* Registered(taskType): under the read lock
Registered(taskType) ==
    taskType \in DOMAIN mon.timerMap \/ taskType \in DOMAIN mon.tickerMap

\* RegisterTimerForTasks / RegisterTickerForTasks, up to the return of
\* t.Registered(taskType): ErrRegistered, or on to t.mu.Lock()
RegisterCheck(kind, taskType) ==
    /\ Len(mon.calls) < MaxRegisterCalls
    /\ mon' = [mon EXCEPT
                 !.calls = Append(@, IF Registered(taskType)
                                     THEN [kind |-> kind, type |-> taskType,
                                           pc |-> "done", err |-> "ErrRegistered"]
                                     ELSE [kind |-> kind, type |-> taskType,
                                           pc |-> "lock", err |-> ""])]
    /\ UNCHANGED nonMonitorVars

\* the rest of the call, under the lock: the task is stored in its map, a
\* runner is started if the monitor is running, nil is returned
RegisterStore(c) ==
    /\ c \in DOMAIN mon.calls
    /\ mon.calls[c].pc = "lock"
    /\ LET kind == mon.calls[c].kind
           taskType == mon.calls[c].type
       IN  mon' = [mon EXCEPT
                     !.timerMap = IF kind = "timer" THEN Store(@, taskType, c) ELSE @,
                     !.tickerMap = IF kind = "ticker" THEN Store(@, taskType, c) ELSE @,
                     !.runners = IF mon.running
                                 THEN @ \cup {<<kind, taskType, c>>} ELSE @,
                     !.calls[c] = [@ EXCEPT !.pc = "done", !.err = "nil"]]
    /\ UNCHANGED nonMonitorVars

\* Start(): once, a runner for every task of both maps, running = true
MonitorStart ==
    /\ ~mon.started
    /\ mon' = [mon EXCEPT
                 !.started = TRUE,
                 !.running = TRUE,
                 !.runners = @ \cup
                     { <<"timer", ty, mon.timerMap[ty]>> : ty \in DOMAIN mon.timerMap }
                     \cup
                     { <<"ticker", ty, mon.tickerMap[ty]>> : ty \in DOMAIN mon.tickerMap }]
    /\ UNCHANGED nonMonitorVars

MonitorNext ==
    \/ \E kind \in {"timer", "ticker"}, taskType \in Types : RegisterCheck(kind, taskType)
    \/ \E c \in 1 .. MaxRegisterCalls : RegisterStore(c)
    \/ MonitorStart

MonitorInit0 == Init /\ pipelineCount = 1
MonitorSpec == MonitorInit0 /\ [][MonitorNext]_vars

====
